---------------------------- MODULE Spec2Model ----------------------------
(***************************************************************************)
(* A model of the credential and cryptographic trust code of skicka.go:    *)
(*   - the stream cipher helpers (encryptBytes, decryptBytes and the two   *)
(*     reader constructors),                                               *)
(*   - the key envelope (generateKey, decryptEncryptionKey) and the lazy   *)
(*     initialisation of the global key by concurrent transfer workers,    *)
(*   - the OAuth callback listener (codeFromWeb, openURL),                 *)
(*   - the token cache (getOAuthClient, readCachedToken, saveToken),       *)
(*   - main, from readConfigFile over getOAuthClient to the command,       *)
(*   - getFileContentsReaderForUpload, one call after another,             *)
(*   - sanitize and the places that write diagnostics,                     *)
(*   - authorizeAndGetToken, in its browser flow and in its manual flow.   *)
(* Each part has its own specification; the variables a specification does *)
(* not use stay at their idle values.                                      *)
(***************************************************************************)
EXTENDS Integers, Sequences, FiniteSets, TLC

VARIABLES
    \* stream cipher: one call of encryptBytes followed by decryptBytes
    cKey, cIv, cPlain, cCipher, cOut, cPc,
    \* key envelope: the process, its environment and its transfer workers
    passphrase, config, key, stdout, exitMsg, cmd, runs,
    wPc, wRet, wUsed, derivations, rejected, genSecret, configSecret,
    \* callback listener: codeFromWeb, its launch goroutine and the handlers
    mPc, mCode, mErr, mFrom, waited, listener, lPc, lTry, lErr, urlOut,
    reqs, hPc, hResp,
    \* oauthConfig.RedirectURL, and the authorization URL built last
    oRedirect, authURL,
    \* token cache: the cache file and one call of getOAuthClient per process
    cacheFile, cfgClientId, tPc, tToken, tUsedCache, tAuth, tWrites, tSaved,
    tErr, tRuns, fileAtStart, tPrevFailedId, tIssuedId, fileIssuedId,
    \* main: its position between readConfigFile, getOAuthClient and the command
    mainPc,
    \* diagnostics: the [google] secrets of the config and the texts emitted
    gClientId, gClientSecret, gApiKey, emitted,
    \* one call of getFileContentsReaderForUpload after another
    uPc, uFile, uEncrypt, uIv, uOut, uSize, uCalls,
    \* one call of authorizeAndGetToken: what it printed, the line typed at
    \* its prompt, its variable code and the token exchanges it made
    aPc, aTryBrowser, aPrinted, aLine, aCode, aExchanges,
    \* one call of sanitize: its argument and its result
    sPc, sIn, sOut

cryptVars == <<cKey, cIv, cPlain, cCipher, cOut, cPc>>
keyVars   == <<passphrase, config, key, stdout, exitMsg, cmd, runs,
               wPc, wRet, wUsed, derivations, rejected, genSecret, configSecret>>
webVars   == <<mPc, mCode, mErr, mFrom, waited, listener, lPc, lTry, lErr, urlOut,
               reqs, hPc, hResp, oRedirect, authURL>>
tokenVars == <<cacheFile, cfgClientId, tPc, tToken, tUsedCache, tAuth, tWrites, tSaved,
               tErr, tRuns, fileAtStart, tPrevFailedId, tIssuedId,
               fileIssuedId>>
mainVars  == <<mainPc>>
diagVars  == <<gClientId, gClientSecret, gApiKey, emitted>>
upVars    == <<uPc, uFile, uEncrypt, uIv, uOut, uSize, uCalls>>
authVars  == <<aPc, aTryBrowser, aPrinted, aLine, aCode, aExchanges>>
sanVars   == <<sPc, sIn, sOut>>
extVars   == <<mainVars, diagVars, upVars, authVars, sanVars>>
vars      == <<cryptVars, keyVars, webVars, tokenVars, extVars>>

(***************************************************************************)
(* Bytes, slices and hexadecimal text                                      *)
(***************************************************************************)
Min(a, b) == IF a < b THEN a ELSE b

Take(s, n) == SubSeq(s, 1, Min(n, Len(s)))

Drop(s, n) == SubSeq(s, n + 1, Len(s))

RECURSIVE SumSeq(_)
SumSeq(s) == IF s = <<>> THEN 0 ELSE Head(s) + SumSeq(Tail(s))

\* The sum of the elements, each weighted by its position.
RECURSIVE WeightedSum(_)
WeightedSum(s) ==
    IF s = <<>> THEN 0
    ELSE Len(s) * s[Len(s)] + WeightedSum(SubSeq(s, 1, Len(s) - 1))

\* A nil []byte, as opposed to an empty one: no byte has the value -1.
NilBytes == <<-1>>

\* A patterned byte slice of length n; different seeds give different slices.
Pattern(n, seed) == [i \in 1..n |-> (seed * 37 + i * (2 * seed + 1)) % 256]

\* Exclusive or of two bytes, bit by bit.
RECURSIVE XorByte(_, _)
XorByte(a, b) ==
    IF a = 0 THEN b
    ELSE IF b = 0 THEN a
    ELSE ((a + b) % 2) + 2 * XorByte(a \div 2, b \div 2)

HexDigits == <<"0", "1", "2", "3", "4", "5", "6", "7",
               "8", "9", "a", "b", "c", "d", "e", "f">>

\* hex.EncodeToString: two lower-case digits per byte, high nibble first.
RECURSIVE HexEncode(_)
HexEncode(b) ==
    IF b = <<>> THEN <<>>
    ELSE <<HexDigits[(Head(b) \div 16) + 1], HexDigits[(Head(b) % 16) + 1]>>
         \o HexEncode(Tail(b))

\* The value of one hexadecimal digit, -1 for any other character.
HexValues ==
    [c \in {"0", "1", "2", "3", "4", "5", "6", "7", "8", "9",
            "a", "b", "c", "d", "e", "f", "A", "B", "C", "D", "E", "F"} |->
        CASE c = "0" -> 0 [] c = "1" -> 1 [] c = "2" -> 2 [] c = "3" -> 3
          [] c = "4" -> 4 [] c = "5" -> 5 [] c = "6" -> 6 [] c = "7" -> 7
          [] c = "8" -> 8 [] c = "9" -> 9
          [] c \in {"a", "A"} -> 10 [] c \in {"b", "B"} -> 11
          [] c \in {"c", "C"} -> 12 [] c \in {"d", "D"} -> 13
          [] c \in {"e", "E"} -> 14 [] c \in {"f", "F"} -> 15]

HexVal(c) == IF c \in DOMAIN HexValues THEN HexValues[c] ELSE -1

\* hex.DecodeString: an error for an odd length or a character that is no digit.
HexOk(s) == Len(s) % 2 = 0 /\ \A i \in 1..Len(s) : HexVal(s[i]) >= 0

HexDecode(s) ==
    [i \in 1..(Len(s) \div 2) |-> 16 * HexVal(s[2 * i - 1]) + HexVal(s[2 * i])]

(***************************************************************************)
(* AES in cipher-feedback mode                                             *)
(***************************************************************************)
BlockSize == 16

\* The key lengths aes.NewCipher accepts (AES-128, AES-192, AES-256).
AESKeySizes == {16, 24, 32}

\* The forward block transformation of the cipher aes.NewCipher(key) returns,
\* abstracted as a function of the key and of every byte of the block.  CFB uses
\* only this direction, for encryption and for decryption alike.
AESBlock(k, blk) ==
    LET n   == Len(k)
        sum == SumSeq(blk)
    IN  [i \in 1..BlockSize |->
            (5 * blk[i] + blk[(i % BlockSize) + 1] + 3 * k[((i - 1) % n) + 1]
               + k[((7 * i) % n) + 1] + sum + 17 * i) % 256]

\* cipher.NewCFBEncrypter / NewCFBDecrypter followed by XORKeyStream over src:
\* each block of key stream is the encryption of the previous block of
\* ciphertext (of the iv first); a short last block uses a prefix of it.
RECURSIVE CFBStream(_, _, _, _)
CFBStream(k, next, src, decrypt) ==
    IF src = <<>> THEN <<>>
    ELSE LET n     == Min(BlockSize, Len(src))
             ks    == AESBlock(k, next)
             chunk == SubSeq(src, 1, n)
             out   == [i \in 1..n |-> XorByte(chunk[i], ks[i])]
             fb    == IF decrypt THEN chunk ELSE out
         IN  IF Len(src) > n
             THEN out \o CFBStream(k, fb, Drop(src, n), decrypt)
             ELSE out

\* A reader constructor either ends the process (printErrorAndExit) or returns
\* a stream reader.
FatalReader(msg) == [fatal |-> msg, decrypt |-> FALSE, k |-> <<>>, iv |-> <<>>]

makeEncrypterReader(k, iv) ==
    IF k = NilBytes THEN FatalReader("uninitialized key in makeEncrypterReader()")
    ELSE IF Len(k) \notin AESKeySizes THEN FatalReader("unable to create AES cypher")
    ELSE IF Len(iv) # BlockSize THEN FatalReader("IV length != aes.BlockSize")
    ELSE [fatal |-> "", decrypt |-> FALSE, k |-> k, iv |-> iv]

\* The same constructor with the decrypter's feedback: a plausible slip.
makeDecryptionReaderWithEncrypter(k, iv) ==
    IF k = NilBytes THEN FatalReader("uninitialized key in makeDecryptionReader()")
    ELSE IF Len(k) \notin AESKeySizes THEN FatalReader("unable to create AES cypher")
    ELSE IF Len(iv) # BlockSize THEN FatalReader("IV length != aes.BlockSize")
    ELSE [fatal |-> "", decrypt |-> FALSE, k |-> k, iv |-> iv]

makeDecryptionReader(k, iv) ==
    IF k = NilBytes THEN FatalReader("uninitialized key in makeDecryptionReader()")
    ELSE IF Len(k) \notin AESKeySizes THEN FatalReader("unable to create AES cypher")
    ELSE IF Len(iv) # BlockSize THEN FatalReader("IV length != aes.BlockSize")
    ELSE [fatal |-> "", decrypt |-> TRUE, k |-> k, iv |-> iv]

\* ioutil.ReadAll of a stream reader over the bytes src.
ReadAll(r, src) == CFBStream(r.k, r.iv, src, r.decrypt)

\* encryptBytes and decryptBytes: the process exit of the constructor, or the
\* bytes read.
encryptBytes(k, iv, plaintext) ==
    LET r == makeEncrypterReader(k, iv)
    IN  IF r.fatal # "" THEN [fatal |-> r.fatal, bytes |-> <<>>]
        ELSE [fatal |-> "", bytes |-> ReadAll(r, plaintext)]

decryptBytes(k, iv, ciphertext) ==
    LET r == makeDecryptionReader(k, iv)
    IN  IF r.fatal # "" THEN [fatal |-> r.fatal, bytes |-> <<>>]
        ELSE [fatal |-> "", bytes |-> ReadAll(r, ciphertext)]

(***************************************************************************)
(* The stream cipher on its own: encryptBytes, then decryptBytes           *)
(***************************************************************************)
MaxPlainLen == 33

CryptSeeds == {1, 2}

\* Keys of every length aes.NewCipher accepts, a nil key, an empty key and a
\* key of a length it rejects.
CryptKeys ==
    {NilBytes, <<>>, Pattern(8, 1)}
        \cup {Pattern(n, s) : n \in AESKeySizes, s \in CryptSeeds}

CryptIvs == {Pattern(BlockSize, s) : s \in CryptSeeds} \cup {Pattern(8, 1)}

CryptPlains == {Pattern(n, s) : n \in 0..MaxPlainLen, s \in CryptSeeds}

CryptIdle ==
    /\ cKey = NilBytes /\ cIv = <<>> /\ cPlain = <<>>
    /\ cCipher = <<>> /\ cOut = <<>> /\ cPc = "idle"

CryptInit ==
    /\ cKey \in CryptKeys
    /\ cIv \in CryptIvs
    /\ cPlain \in CryptPlains
    /\ cCipher = <<>>
    /\ cOut = <<>>
    /\ cPc = "start"

\* encryptBytes(key, iv, plaintext)
Encrypt ==
    /\ cPc = "start"
    /\ LET r == encryptBytes(cKey, cIv, cPlain)
       IN  IF r.fatal # ""
           THEN cPc' = "exit" /\ UNCHANGED cCipher
           ELSE cPc' = "encrypted" /\ cCipher' = r.bytes
    /\ UNCHANGED <<cKey, cIv, cPlain, cOut, keyVars, webVars, tokenVars, extVars>>

\* decryptBytes(key, iv, ciphertext) on what encryptBytes returned
Decrypt ==
    /\ cPc = "encrypted"
    /\ LET r == decryptBytes(cKey, cIv, cCipher)
       IN  IF r.fatal # ""
           THEN cPc' = "exit" /\ UNCHANGED cOut
           ELSE cPc' = "decrypted" /\ cOut' = r.bytes
    /\ UNCHANGED <<cKey, cIv, cPlain, cCipher, keyVars, webVars, tokenVars, extVars>>

CryptNext == Encrypt \/ Decrypt

(***************************************************************************)
(* The key envelope                                                        *)
(***************************************************************************)
SaltLen == 32

HashLen == 64

VerifierLen == 32

ContentKeyLen == 32

\* The value of SKICKA_PASSPHRASE; the empty one stands for unset or empty.
Passphrases == {<<>>, <<112>>, <<112, 119>>}

\* What getRandomBytes may return for the salt, the key and its iv.
Salts == {Pattern(SaltLen, 1), Pattern(SaltLen, 2)}

ContentKeys == {Pattern(ContentKeyLen, 3), Pattern(ContentKeyLen, 4)}

KeyIvs == {Pattern(BlockSize, 5), Pattern(BlockSize, 6)}

\* pbkdf2.Key(password, salt, 65536, keyLen, sha256.New), abstracted as a
\* deterministic function of the password and the salt.
PBKDF2(password, salt, keyLen) ==
    LET base == 7 * SumSeq(password) + 11 * Len(password) + 13 * SumSeq(salt)
        step == WeightedSum(password) + 3 * WeightedSum(salt) + 5
    IN  [i \in 1..keyLen |-> (base + i * step) % 256]

EmptyConfig ==
    [Salt |-> <<>>, Passphrase_hash |-> <<>>,
     Encrypted_key |-> <<>>, Encrypted_key_iv |-> <<>>]

NoSecret ==
    [passphrase |-> <<>>, key |-> NilBytes, keyEncryptKey |-> NilBytes]

\* generateKey printing the key itself on the encrypted-key line.
generateKeyPrintingKey(pass, salt, k, iv) ==
    IF pass = <<>>
    THEN [fatal |-> "SKICKA_PASSPHRASE environment variable not set.",
          out |-> <<>>, secret |-> NoSecret]
    ELSE LET hash          == PBKDF2(pass, salt, HashLen)
             passHash      == Take(hash, VerifierLen)
             keyEncryptKey == Drop(hash, VerifierLen)
         IN  [fatal |-> "",
              out |-> <<HexEncode(salt), HexEncode(passHash),
                        HexEncode(k), HexEncode(iv)>>,
              secret |-> [passphrase |-> pass, key |-> k,
                          keyEncryptKey |-> keyEncryptKey]]

\* generateKey with the three values getRandomBytes returned: the process exit,
\* or the values of the four lines printed (salt, passphrase-hash, encrypted-key,
\* encrypted-key-iv, in this order) and the secrets it held, for reference.
generateKey(pass, salt, k, iv) ==
    IF pass = <<>>
    THEN [fatal |-> "SKICKA_PASSPHRASE environment variable not set.",
          out |-> <<>>, secret |-> NoSecret]
    ELSE LET hash          == PBKDF2(pass, salt, HashLen)
             passHash      == Take(hash, VerifierLen)
             keyEncryptKey == Drop(hash, VerifierLen)
             encryptedKey  == encryptBytes(keyEncryptKey, iv, k)
         IN  IF Len(hash) # HashLen
             THEN [fatal |-> "incorrect key size returned by pbkdf2",
                   out |-> <<>>, secret |-> NoSecret]
             ELSE IF encryptedKey.fatal # ""
             THEN [fatal |-> encryptedKey.fatal,
                   out |-> <<>>, secret |-> NoSecret]
             ELSE [fatal |-> "",
                   out |-> <<HexEncode(salt), HexEncode(passHash),
                             HexEncode(encryptedKey.bytes), HexEncode(iv)>>,
                   secret |-> [passphrase |-> pass, key |-> k,
                               keyEncryptKey |-> keyEncryptKey]]

KeyResult(end, derived, k) == [end |-> end, derived |-> derived, key |-> k]

\* decryptEncryptionKey without the comparison with the stored verifier.
decryptEncryptionKeyUnverified(globalKey, cfg, pass) ==
    IF globalKey # NilBytes
    THEN KeyResult("panic: key aready decrypted!", FALSE, NilBytes)
    ELSE IF ~ (HexOk(cfg.Salt) /\ HexOk(cfg.Passphrase_hash)
               /\ HexOk(cfg.Encrypted_key) /\ HexOk(cfg.Encrypted_key_iv))
    THEN KeyResult("unable to decode hex string", FALSE, NilBytes)
    ELSE IF pass = <<>>
    THEN KeyResult("SKICKA_PASSPHRASE environment variable not set", FALSE, NilBytes)
    ELSE LET derivedKey == PBKDF2(pass, HexDecode(cfg.Salt), HashLen)
             d == decryptBytes(Drop(derivedKey, VerifierLen),
                               HexDecode(cfg.Encrypted_key_iv),
                               HexDecode(cfg.Encrypted_key))
         IN  IF d.fatal # "" THEN KeyResult(d.fatal, TRUE, NilBytes)
             ELSE KeyResult("", TRUE, d.bytes)

\* decryptEncryptionKey unwrapping with the verifier half of the derivation.
decryptEncryptionKeyWrongHalf(globalKey, cfg, pass) ==
    IF globalKey # NilBytes
    THEN KeyResult("panic: key aready decrypted!", FALSE, NilBytes)
    ELSE IF ~ (HexOk(cfg.Salt) /\ HexOk(cfg.Passphrase_hash)
               /\ HexOk(cfg.Encrypted_key) /\ HexOk(cfg.Encrypted_key_iv))
    THEN KeyResult("unable to decode hex string", FALSE, NilBytes)
    ELSE IF pass = <<>>
    THEN KeyResult("SKICKA_PASSPHRASE environment variable not set", FALSE, NilBytes)
    ELSE LET derivedKey == PBKDF2(pass, HexDecode(cfg.Salt), HashLen)
         IN  IF Take(derivedKey, VerifierLen) # HexDecode(cfg.Passphrase_hash)
             THEN KeyResult("incorrect passphrase", TRUE, NilBytes)
             ELSE LET d == decryptBytes(Take(derivedKey, VerifierLen),
                                        HexDecode(cfg.Encrypted_key_iv),
                                        HexDecode(cfg.Encrypted_key))
                  IN  IF d.fatal # "" THEN KeyResult(d.fatal, TRUE, NilBytes)
                      ELSE KeyResult("", TRUE, d.bytes)

\* decryptEncryptionKey without the test of the passphrase for emptiness.
decryptEncryptionKeyAnyPassphrase(globalKey, cfg, pass) ==
    IF globalKey # NilBytes
    THEN KeyResult("panic: key aready decrypted!", FALSE, NilBytes)
    ELSE IF ~ (HexOk(cfg.Salt) /\ HexOk(cfg.Passphrase_hash)
               /\ HexOk(cfg.Encrypted_key) /\ HexOk(cfg.Encrypted_key_iv))
    THEN KeyResult("unable to decode hex string", FALSE, NilBytes)
    ELSE LET derivedKey == PBKDF2(pass, HexDecode(cfg.Salt), HashLen)
         IN  IF Take(derivedKey, VerifierLen) # HexDecode(cfg.Passphrase_hash)
             THEN KeyResult("incorrect passphrase", TRUE, NilBytes)
             ELSE LET d == decryptBytes(Drop(derivedKey, VerifierLen),
                                        HexDecode(cfg.Encrypted_key_iv),
                                        HexDecode(cfg.Encrypted_key))
                  IN  IF d.fatal # "" THEN KeyResult(d.fatal, TRUE, NilBytes)
                      ELSE KeyResult("", TRUE, d.bytes)

\* decryptEncryptionKey, called with the global key as it is on entry: how the
\* process ends in it (end), whether it ran the derivation, and the key returned.
decryptEncryptionKey(globalKey, cfg, pass) ==
    IF globalKey # NilBytes
    THEN KeyResult("panic: key aready decrypted!", FALSE, NilBytes)
    ELSE IF ~ (HexOk(cfg.Salt) /\ HexOk(cfg.Passphrase_hash)
               /\ HexOk(cfg.Encrypted_key) /\ HexOk(cfg.Encrypted_key_iv))
    THEN KeyResult("unable to decode hex string", FALSE, NilBytes)
    ELSE IF pass = <<>>
    THEN KeyResult("SKICKA_PASSPHRASE environment variable not set", FALSE, NilBytes)
    ELSE LET derivedKey == PBKDF2(pass, HexDecode(cfg.Salt), HashLen)
         IN  IF Take(derivedKey, VerifierLen) # HexDecode(cfg.Passphrase_hash)
             THEN KeyResult("incorrect passphrase", TRUE, NilBytes)
             ELSE LET d == decryptBytes(Drop(derivedKey, VerifierLen),
                                        HexDecode(cfg.Encrypted_key_iv),
                                        HexDecode(cfg.Encrypted_key))
                  IN  IF d.fatal # "" THEN KeyResult(d.fatal, TRUE, NilBytes)
                      ELSE KeyResult("", TRUE, d.bytes)

\* checkEncryptionConfig that tests the hex digits but not the length.
checkEncryptionConfigHexOnly(value, n) ==
    IF value = <<>> THEN 0
    ELSE IF ~ HexOk(value) THEN 1
    ELSE 0

\* checkEncryptionConfig: 1 for a value that is present and is not the hex text
\* of exactly n bytes.
checkEncryptionConfig(value, n) ==
    IF value = <<>> THEN 0
    ELSE IF ~ HexOk(value) \/ Len(HexDecode(value)) # n THEN 1
    ELSE 0

\* checkConfigValidity: the number of invalid [encryption] values; the process
\* exits when it is not 0.
checkConfigValidity(cfg) ==
    checkEncryptionConfig(cfg.Salt, SaltLen)
        + checkEncryptionConfig(cfg.Passphrase_hash, VerifierLen)
        + checkEncryptionConfig(cfg.Encrypted_key, ContentKeyLen)
        + checkEncryptionConfig(cfg.Encrypted_key_iv, BlockSize)

(***************************************************************************)
(* The process: skicka genkey, or a command whose workers encrypt files    *)
(***************************************************************************)
NumWorkers == 2

MaxRuns == 3

Workers == 1..NumWorkers

\* The iv of the file a worker uploads (getRandomBytes(aes.BlockSize)).
FileIv == Pattern(BlockSize, 7)

KeyIdle ==
    /\ passphrase = <<>> /\ config = EmptyConfig /\ key = NilBytes
    /\ stdout = <<>> /\ exitMsg = "" /\ cmd = "idle" /\ runs = 0
    /\ wPc = <<>> /\ wRet = <<>> /\ wUsed = <<>>
    /\ derivations = 0 /\ rejected = 0
    /\ genSecret = NoSecret /\ configSecret = NoSecret

\* No process yet; the config file is the one "skicka init" writes, with every
\* [encryption] value commented out.
KeyInit ==
    /\ passphrase = <<>>
    /\ config = EmptyConfig
    /\ key = NilBytes
    /\ stdout = <<>>
    /\ exitMsg = ""
    /\ cmd = "none"
    /\ runs = 0
    /\ wPc = [w \in Workers |-> "idle"]
    /\ wRet = [w \in Workers |-> NilBytes]
    /\ wUsed = [w \in Workers |-> NilBytes]
    /\ derivations = 0
    /\ rejected = 0
    /\ genSecret = NoSecret
    /\ configSecret = NoSecret

\* A new process: its globals are fresh, whatever the previous one did.
ProcessStart(c, p, end, pc) ==
    /\ cmd = "none" \/ exitMsg # ""
    /\ runs < MaxRuns
    /\ runs' = runs + 1
    /\ cmd' = c
    /\ passphrase' = p
    /\ key' = NilBytes
    /\ stdout' = <<>>
    /\ exitMsg' = end
    /\ wPc' = [w \in Workers |-> pc]
    /\ wRet' = [w \in Workers |-> NilBytes]
    /\ wUsed' = [w \in Workers |-> NilBytes]
    /\ derivations' = 0
    /\ genSecret' = NoSecret
    /\ UNCHANGED <<config, configSecret, rejected>>

\* main, "genkey": no config file is read.
StartGenKey ==
    /\ \E p \in Passphrases : ProcessStart("genkey", p, "", "idle")
    /\ UNCHANGED <<cryptVars, webVars, tokenVars, extVars>>

\* generateKey()
GenerateKey ==
    /\ cmd = "genkey" /\ exitMsg = ""
    /\ \E salt \in Salts, k \in ContentKeys, iv \in KeyIvs :
          LET g == generateKey(passphrase, salt, k, iv)
          IN  /\ stdout' = g.out
              /\ genSecret' = g.secret
              /\ exitMsg' = IF g.fatal # "" THEN g.fatal ELSE "done"
    /\ UNCHANGED <<passphrase, config, key, cmd, runs, wPc, wRet, wUsed,
                   derivations, rejected, configSecret, cryptVars, webVars, tokenVars, extVars>>

\* The user adds the four printed lines to the [encryption] section.
StoreConfig ==
    /\ cmd = "genkey" /\ exitMsg = "done" /\ Len(stdout) = 4
    /\ config' = [Salt |-> stdout[1], Passphrase_hash |-> stdout[2],
                  Encrypted_key |-> stdout[3], Encrypted_key_iv |-> stdout[4]]
    /\ configSecret' = genSecret
    /\ UNCHANGED <<passphrase, key, stdout, exitMsg, cmd, runs, wPc, wRet, wUsed,
                   derivations, rejected, genSecret, cryptVars, webVars, tokenVars, extVars>>

\* main, a transfer command with encryption: readConfigFile and its
\* checkConfigValidity, then the workers start on their files.
StartUpload ==
    /\ \E p \in Passphrases :
          IF checkConfigValidity(config) > 0
          THEN ProcessStart("upload", p, "missing or invalid [encryption] value", "idle")
          ELSE ProcessStart("upload", p, "", "check")
    /\ UNCHANGED <<cryptVars, webVars, tokenVars, extVars>>

Running == cmd = "upload" /\ exitMsg = ""

\* getFileContentsReaderForUpload: if key == nil
CheckKey(w) ==
    /\ Running /\ wPc[w] = "check"
    /\ wPc' = [wPc EXCEPT ![w] = IF key = NilBytes THEN "enter" ELSE "encrypt"]
    /\ UNCHANGED <<passphrase, config, key, stdout, exitMsg, cmd, runs, wRet, wUsed,
                   derivations, rejected, genSecret, configSecret, cryptVars, webVars, tokenVars, extVars>>

\* the call decryptEncryptionKey(), up to its return
DecryptKey(w) ==
    /\ Running /\ wPc[w] = "enter"
    /\ LET r == decryptEncryptionKey(key, config, passphrase)
       IN  /\ derivations' = derivations + (IF r.derived THEN 1 ELSE 0)
           /\ exitMsg' = r.end
           /\ rejected' = rejected + (IF r.end = "incorrect passphrase" THEN 1 ELSE 0)
           /\ wRet' = [wRet EXCEPT ![w] = r.key]
           /\ wPc' = [wPc EXCEPT ![w] = IF r.end = "" THEN "assign" ELSE "enter"]
    /\ UNCHANGED <<passphrase, config, key, stdout, cmd, runs, wUsed,
                   genSecret, configSecret, cryptVars, webVars, tokenVars, extVars>>

\* key = (the value decryptEncryptionKey returned)
AssignKey(w) ==
    /\ Running /\ wPc[w] = "assign"
    /\ key' = wRet[w]
    /\ wPc' = [wPc EXCEPT ![w] = "encrypt"]
    /\ UNCHANGED <<passphrase, config, stdout, exitMsg, cmd, runs, wRet, wUsed,
                   derivations, rejected, genSecret, configSecret, cryptVars, webVars, tokenVars, extVars>>

\* r := makeEncrypterReader(key, iv, f)
MakeReader(w) ==
    /\ Running /\ wPc[w] = "encrypt"
    /\ LET r == makeEncrypterReader(key, FileIv)
       IN  IF r.fatal # ""
           THEN exitMsg' = r.fatal /\ UNCHANGED <<wPc, wUsed>>
           ELSE /\ wUsed' = [wUsed EXCEPT ![w] = r.k]
                /\ wPc' = [wPc EXCEPT ![w] = "done"]
                /\ UNCHANGED exitMsg
    /\ UNCHANGED <<passphrase, config, key, stdout, cmd, runs, wRet,
                   derivations, rejected, genSecret, configSecret, cryptVars, webVars, tokenVars, extVars>>

\* every worker has returned: the command ends
Finish ==
    /\ Running /\ \A w \in Workers : wPc[w] = "done"
    /\ exitMsg' = "done"
    /\ UNCHANGED <<passphrase, config, key, stdout, cmd, runs, wPc, wRet, wUsed,
                   derivations, rejected, genSecret, configSecret, cryptVars, webVars, tokenVars, extVars>>

KeyNext ==
    \/ StartGenKey
    \/ GenerateKey
    \/ StoreConfig
    \/ StartUpload
    \/ \E w \in Workers : CheckKey(w)
    \/ \E w \in Workers : DecryptKey(w)
    \/ \E w \in Workers : AssignKey(w)
    \/ \E w \in Workers : MakeReader(w)
    \/ Finish

(***************************************************************************)
(* The callback listener: codeFromWeb                                      *)
(***************************************************************************)
MaxRequests == 2

\* openURL tries xdg-open, google-chrome and open, in this order.
NumLaunchers == 3

\* randState, the state nonce placed in the authorization URL.
Nonce == "st1"

\* The requests that may reach the listener: favicon probes, requests with a
\* state that is not the nonce (or with none), and requests with the nonce,
\* with and without a code.
RequestKinds ==
    { [path |-> "/favicon.ico", state |-> "", code |-> ""],
      [path |-> "/favicon.ico", state |-> Nonce, code |-> "a"],
      [path |-> "/", state |-> "st0", code |-> "a"],
      [path |-> "/", state |-> "", code |-> ""],
      [path |-> "/", state |-> Nonce, code |-> ""],
      [path |-> "/", state |-> Nonce, code |-> "a"],
      [path |-> "/", state |-> Nonce, code |-> "b"] }

\* The handler without the comparison of the state with the nonce.
handlerWithoutStateCheck(req, randState) ==
    IF req.path = "/favicon.ico" THEN [status |-> 404, send |-> FALSE]
    ELSE IF req.code # "" THEN [status |-> 200, send |-> TRUE]
    ELSE [status |-> 500, send |-> FALSE]

\* The handler that takes every request with the nonce as the callback,
\* before looking at its path and whether or not it carries a code.
handlerWithoutCodeCheck(req, randState) ==
    IF req.state # randState
    THEN [status |-> IF req.path = "/favicon.ico" THEN 404 ELSE 500, send |-> FALSE]
    ELSE [status |-> 200, send |-> TRUE]

\* The handler of the listener, up to its send on ch: the status of its
\* response, and whether it goes on to send the code.
handler(req, randState) ==
    IF req.path = "/favicon.ico" THEN [status |-> 404, send |-> FALSE]
    ELSE IF req.state # randState THEN [status |-> 500, send |-> FALSE]
    ELSE IF req.code # "" THEN [status |-> 200, send |-> TRUE]
    ELSE [status |-> 500, send |-> FALSE]

\* getOAuthClient: the RedirectURL of the oauthConfig it builds.
OobURL == "urn:ietf:wg:oauth:2.0:oob"

\* ts.URL, the address of the callback server.
ListenerURL == "http://127.0.0.1:port"

\* oauthConfig.AuthCodeURL(state): the parameters of the URL that matter
\* here; redirect_uri is the RedirectURL the configuration holds at the call.
AuthCodeURL(redirectURL, state) ==
    [response_type |-> "code", redirect_uri |-> redirectURL, state |-> state]

\* No authorization URL has been built.
NoURL == [response_type |-> "", redirect_uri |-> "", state |-> ""]

WebIdle ==
    /\ mPc = "idle" /\ mCode = "" /\ mErr = "" /\ mFrom = 0 /\ waited = FALSE
    /\ listener = "none" /\ lPc = "none" /\ lTry = 0 /\ lErr = ""
    /\ urlOut = FALSE /\ reqs = <<>> /\ hPc = <<>> /\ hResp = <<>>
    /\ oRedirect = "" /\ authURL = NoURL

\* codeFromWeb is called with the configuration as getOAuthClient built it.
WebInit ==
    /\ mPc = "start"
    /\ mCode = ""
    /\ mErr = ""
    /\ mFrom = 0
    /\ waited = FALSE
    /\ listener = "none"
    /\ lPc = "none"
    /\ lTry = 0
    /\ lErr = ""
    /\ urlOut = FALSE
    /\ reqs = <<>>
    /\ hPc = <<>>
    /\ hResp = <<>>
    /\ oRedirect = OobURL
    /\ authURL = NoURL

\* codeFromWeb that builds the authorization URL before it sets the redirect
\* URL of the configuration to the URL of its server.
ListenUrlFirst ==
    /\ mPc = "start"
    /\ listener' = "open"
    /\ authURL' = AuthCodeURL(oRedirect, Nonce)
    /\ oRedirect' = ListenerURL
    /\ lPc' = "launch"
    /\ mPc' = "waitErrs"
    /\ UNCHANGED <<mCode, mErr, mFrom, waited, lTry, lErr, urlOut, reqs, hPc, hResp,
                   cryptVars, keyVars, tokenVars, extVars>>

\* codeFromWeb up to its receive on errs: the channels, the nonce, the server
\* (listening from now on), the authorization URL and the launch goroutine.
Listen ==
    /\ mPc = "start"
    /\ listener' = "open"
    /\ oRedirect' = ListenerURL
    /\ authURL' = AuthCodeURL(ListenerURL, Nonce)
    /\ lPc' = "launch"
    /\ mPc' = "waitErrs"
    /\ UNCHANGED <<mCode, mErr, mFrom, waited, lTry, lErr, urlOut, reqs, hPc, hResp,
                   cryptVars, keyVars, tokenVars, extVars>>

\* openURL: one launcher is run with the URL; the first that succeeds ends
\* the loop, and the error is returned when the last has failed.
TryLauncher ==
    /\ lPc = "launch" /\ lTry < NumLaunchers
    /\ urlOut' = TRUE
    /\ \E ok \in BOOLEAN :
          IF ok
          THEN lPc' = "send" /\ lErr' = "" /\ UNCHANGED lTry
          ELSE /\ lTry' = lTry + 1
               /\ IF lTry + 1 = NumLaunchers
                  THEN lPc' = "send" /\ lErr' = "Error opening URL in browser."
                  ELSE UNCHANGED <<lPc, lErr>>
    /\ UNCHANGED <<mPc, mCode, mErr, mFrom, waited, listener, reqs, hPc, hResp,
                   oRedirect, authURL,
                   cryptVars, keyVars, tokenVars, extVars>>

\* errs <- err in the launch goroutine meets err := <-errs in codeFromWeb,
\* which then waits for the code or leaves with the error.
ReceiveErr ==
    /\ mPc = "waitErrs" /\ lPc = "send"
    /\ lPc' = "done"
    /\ mErr' = lErr
    /\ mPc' = IF lErr = "" THEN "waitCode" ELSE "closing"
    /\ waited' = (lErr = "")
    /\ UNCHANGED <<mCode, mFrom, listener, lTry, lErr, urlOut, reqs, hPc, hResp,
                   oRedirect, authURL,
                   cryptVars, keyVars, tokenVars, extVars>>

\* A request reaches the listener and its handler starts.  Only who has seen
\* the authorization URL knows the nonce.
Arrive ==
    /\ listener = "open" /\ Len(reqs) < MaxRequests
    /\ \E r \in RequestKinds :
          /\ r.state = Nonce => urlOut
          /\ reqs' = Append(reqs, r)
    /\ hPc' = Append(hPc, "start")
    /\ hResp' = Append(hResp, 0)
    /\ UNCHANGED <<mPc, mCode, mErr, mFrom, waited, listener, lPc, lTry, lErr, urlOut,
                   oRedirect, authURL,
                   cryptVars, keyVars, tokenVars, extVars>>

\* The handler, up to its send on ch or to its return.
Handle(h) ==
    /\ hPc[h] = "start"
    /\ LET r == handler(reqs[h], Nonce)
       IN  /\ hResp' = [hResp EXCEPT ![h] = r.status]
           /\ hPc' = [hPc EXCEPT ![h] = IF r.send THEN "send" ELSE "done"]
    /\ UNCHANGED <<mPc, mCode, mErr, mFrom, waited, listener, lPc, lTry, lErr, urlOut,
                   reqs, oRedirect, authURL,
                   cryptVars, keyVars, tokenVars, extVars>>

\* ch <- code in a handler meets code := <-ch in codeFromWeb.
Deliver(h) ==
    /\ hPc[h] = "send" /\ mPc = "waitCode"
    /\ mCode' = reqs[h].code
    /\ mFrom' = h
    /\ hPc' = [hPc EXCEPT ![h] = "done"]
    /\ mPc' = "closing"
    /\ UNCHANGED <<mErr, waited, listener, lPc, lTry, lErr, urlOut, reqs, hResp,
                   oRedirect, authURL,
                   cryptVars, keyVars, tokenVars, extVars>>

\* The deferred ts.Close() that leaves the listener open: a return path that
\* forgets the listener.
CloseListenerSkipped ==
    /\ mPc = "closing"
    /\ mPc' = "closeWait"
    /\ UNCHANGED <<mCode, mErr, mFrom, waited, listener, lPc, lTry, lErr, urlOut,
                   reqs, hPc, hResp, oRedirect, authURL,
                   cryptVars, keyVars, tokenVars, extVars>>

\* The deferred ts.Close(), first part: the listener is closed.
CloseListener ==
    /\ mPc = "closing"
    /\ listener' = "closed"
    /\ mPc' = "closeWait"
    /\ UNCHANGED <<mCode, mErr, mFrom, waited, lPc, lTry, lErr, urlOut,
                   reqs, hPc, hResp, oRedirect, authURL,
                   cryptVars, keyVars, tokenVars, extVars>>

\* The deferred ts.Close(), second part: it returns once every outstanding
\* request has completed, and codeFromWeb returns after it.
CloseReturn ==
    /\ mPc = "closeWait"
    /\ \A h \in 1..Len(hPc) : hPc[h] = "done"
    /\ mPc' = "returned"
    /\ UNCHANGED <<mCode, mErr, mFrom, waited, listener, lPc, lTry, lErr, urlOut,
                   reqs, hPc, hResp, oRedirect, authURL,
                   cryptVars, keyVars, tokenVars, extVars>>

\* The steps of the program itself, without the arrival of requests.
WebProgress ==
    \/ Listen
    \/ TryLauncher
    \/ ReceiveErr
    \/ \E h \in 1..Len(hPc) : Handle(h)
    \/ \E h \in 1..Len(hPc) : Deliver(h)
    \/ CloseListener
    \/ CloseReturn

WebNext ==
    \/ Listen
    \/ TryLauncher
    \/ ReceiveErr
    \/ Arrive
    \/ \E h \in 1..Len(hPc) : Handle(h)
    \/ \E h \in 1..Len(hPc) : Deliver(h)
    \/ CloseListener
    \/ CloseReturn

(***************************************************************************)
(* authorizeAndGetToken: the browser flow over codeFromWeb, the manual     *)
(* flow over the prompt, and the token exchange                            *)
(***************************************************************************)
\* The lines typed at the prompt, as sequences of words: an empty line (or
\* the end of the input), a code, another code, a code followed by a word.
InputLines == {<<>>, <<"a">>, <<"b">>, <<"a", "x">>}

\* fmt.Scanln(&code): the first word of the line is stored in code; with no
\* word on the line code keeps its "" (the error Scanln returns, also for
\* the words after the first, is not looked at).
Scanln(line) == IF line = <<>> THEN "" ELSE Head(line)

AuthIdle ==
    /\ aPc = "idle" /\ aTryBrowser = FALSE /\ aPrinted = <<>> /\ aLine = <<>>
    /\ aCode = "" /\ aExchanges = <<>>

\* getOAuthClient calls authorizeAndGetToken(oauthConfig, tryBrowserAuth)
\* with the configuration it built.
AuthInit ==
    /\ aPc = "start"
    /\ aTryBrowser \in BOOLEAN
    /\ aPrinted = <<>>
    /\ aLine = <<>>
    /\ aCode = ""
    /\ aExchanges = <<>>
    /\ mPc = "idle"
    /\ mCode = ""
    /\ mErr = ""
    /\ mFrom = 0
    /\ waited = FALSE
    /\ listener = "none"
    /\ lPc = "none"
    /\ lTry = 0
    /\ lErr = ""
    /\ urlOut = FALSE
    /\ reqs = <<>>
    /\ hPc = <<>>
    /\ hResp = <<>>
    /\ oRedirect = OobURL
    /\ authURL = NoURL

\* authorizeAndGetToken that takes the browser flow whatever tryBrowser is.
AuthBeginAlwaysBrowser ==
    /\ aPc = "start"
    /\ aPrinted' = <<[text |-> "attempting to launch browser", url |-> NoURL]>>
    /\ mPc' = "start"
    /\ aPc' = "web"
    /\ UNCHANGED <<aTryBrowser, aLine, aCode, aExchanges,
                   mCode, mErr, mFrom, waited, listener, lPc, lTry, lErr, urlOut,
                   reqs, hPc, hResp, oRedirect, authURL,
                   cryptVars, keyVars, tokenVars, mainVars, diagVars, upVars, sanVars>>

\* authorizeAndGetToken up to its call of codeFromWeb, or up to its prompt:
\* with tryBrowser the two lines about the browser are printed; without it
\* the authorization URL is built and printed, then the prompt.
AuthBegin ==
    /\ aPc = "start"
    /\ IF aTryBrowser
       THEN /\ aPrinted' = <<[text |-> "attempting to launch browser", url |-> NoURL]>>
            /\ mPc' = "start"
            /\ aPc' = "web"
            /\ UNCHANGED authURL
       ELSE /\ authURL' = AuthCodeURL(oRedirect, Nonce)
            /\ aPrinted' = <<[text |-> "Go to the following link in your browser:",
                              url  |-> AuthCodeURL(oRedirect, Nonce)],
                             [text |-> "Enter verification code: ", url |-> NoURL]>>
            /\ aPc' = "scan"
            /\ UNCHANGED mPc
    /\ UNCHANGED <<aTryBrowser, aLine, aCode, aExchanges,
                   mCode, mErr, mFrom, waited, listener, lPc, lTry, lErr, urlOut,
                   reqs, hPc, hResp, oRedirect,
                   cryptVars, keyVars, tokenVars, mainVars, diagVars, upVars, sanVars>>

\* fmt.Scanln(&code) at the prompt
AuthScan ==
    /\ aPc = "scan"
    /\ \E line \in InputLines :
          /\ aLine' = line
          /\ aCode' = Scanln(line)
    /\ aPc' = "exchange"
    /\ UNCHANGED <<aTryBrowser, aPrinted, aExchanges, webVars,
                   cryptVars, keyVars, tokenVars, mainVars, diagVars, upVars, sanVars>>

\* codeFromWeb has returned: its error is returned, or its code is kept.
AuthWebReturn ==
    /\ aPc = "web" /\ mPc = "returned"
    /\ IF mErr # ""
       THEN aPc' = "failed" /\ UNCHANGED aCode
       ELSE aPc' = "exchange" /\ aCode' = mCode
    /\ UNCHANGED <<aTryBrowser, aPrinted, aLine, aExchanges, webVars,
                   cryptVars, keyVars, tokenVars, mainVars, diagVars, upVars, sanVars>>

\* return oauthConfig.Exchange(oauth2.NoContext, code): the request to the
\* token endpoint carries the code and the RedirectURL of the configuration;
\* the token or the error of the endpoint is returned.
AuthExchange ==
    /\ aPc = "exchange"
    /\ aExchanges' = Append(aExchanges, [code |-> aCode, redirect_uri |-> oRedirect])
    /\ \E ok \in BOOLEAN : aPc' = IF ok THEN "token" ELSE "failed"
    /\ UNCHANGED <<aTryBrowser, aPrinted, aLine, aCode, webVars,
                   cryptVars, keyVars, tokenVars, mainVars, diagVars, upVars, sanVars>>

AuthNext ==
    \/ AuthBegin
    \/ AuthScan
    \/ AuthWebReturn
    \/ AuthExchange
    \/ Listen
    \/ TryLauncher
    \/ ReceiveErr
    \/ Arrive
    \/ \E h \in 1..Len(hPc) : Handle(h)
    \/ \E h \in 1..Len(hPc) : Deliver(h)
    \/ CloseListener
    \/ CloseReturn

(***************************************************************************)
(* The token cache: getOAuthClient, readCachedToken, saveToken             *)
(***************************************************************************)
MaxAuthRuns == 2

\* const clientId, the client id built into the program.
DefaultClientId == "default-id"

\* What the config file may give as [google] clientid; the third is the
\* placeholder of the default config file.
ConfigClientIds == {"", "custom-id", "YOUR_GOOGLE_APP_CLIENT_ID"}

\* checkConfigValidity: the placeholder client id counts as none.
NormalizedClientId(id) == IF id = "YOUR_GOOGLE_APP_CLIENT_ID" THEN "" ELSE id

\* getOAuthClient: oauthConfig.ClientID
ActiveClientId(id) == IF id # "" THEN id ELSE DefaultClientId

ClientIds == {DefaultClientId, "custom-id"}

\* An oauth2.Token.  Expiry is a time.Time: an instant, and the reading of
\* the monotonic clock a time taken from time.Now() carries; raw is the
\* unexported field holding the token response.
NoToken ==
    [AccessToken |-> "", TokenType |-> "", RefreshToken |-> "",
     Expiry |-> [instant |-> 0, mono |-> FALSE], raw |-> "nil"]

\* The tokens the token endpoint may give: with and without a refresh token,
\* a token type and an expiry.
NewTokens ==
    { [AccessToken |-> "at1", TokenType |-> "Bearer", RefreshToken |-> "rt1",
       Expiry |-> [instant |-> 2026, mono |-> TRUE], raw |-> "response"],
      [AccessToken |-> "at2", TokenType |-> "", RefreshToken |-> "",
       Expiry |-> [instant |-> 0, mono |-> FALSE], raw |-> "response"] }

\* A JSON text is a sequence of members of an object, or Garbage: a text
\* that is no JSON value (an empty or cut file among them).
Garbage == <<[key |-> "", type |-> "garbage", val |-> ""]>>

Member(k, ty, v) == [key |-> k, type |-> ty, val |-> v]

\* encoding/json matches the keys of an object with the names of the fields
\* without regard to case.
Fold(k) == IF k \in {"ClientId", "clientid"} THEN "clientid" ELSE k

\* json.Marshal(&tok) for tok := token{ClientId: clientId, Token: *t}: the
\* fields tagged omitempty are left out when empty (a time.Time never is),
\* the expiry is written as the text of its instant, raw is not written.
Marshal(id, t) ==
    <<Member("ClientId", "string", id), Member("access_token", "string", t.AccessToken)>>
        \o (IF t.TokenType # "" THEN <<Member("token_type", "string", t.TokenType)>>
            ELSE <<>>)
        \o (IF t.RefreshToken # "" THEN <<Member("refresh_token", "string", t.RefreshToken)>>
            ELSE <<>>)
        \o <<Member("expiry", "time", t.Expiry.instant)>>

\* The last member of the object whose key matches the field name, if any.
Members(doc, name) == {i \in 1..Len(doc) : Fold(doc[i].key) = Fold(name)}

HasMember(doc, name) == Members(doc, name) # {}

Lookup(doc, name) ==
    doc[CHOOSE i \in Members(doc, name) : \A j \in Members(doc, name) : j <= i]

\* A string field, a time field: the value of its member, or the zero value.
StringField(doc, name) == IF HasMember(doc, name) THEN Lookup(doc, name).val ELSE ""

TimeField(doc, name) ==
    [instant |-> IF HasMember(doc, name) THEN Lookup(doc, name).val ELSE 0,
     mono |-> FALSE]

\* Whether the member for a field, if there is one, has the JSON type of the field.
FieldTyped(doc, name, ty) == HasMember(doc, name) => Lookup(doc, name).type = ty

\* json.Unmarshal(b, &t) into a token struct: an error for a text that is no
\* JSON object or whose member has the wrong type for its field.
Unmarshal(doc) ==
    IF doc = Garbage THEN [err |-> "invalid JSON", ClientId |-> "", Token |-> NoToken]
    ELSE IF ~ (/\ FieldTyped(doc, "ClientId", "string")
               /\ FieldTyped(doc, "access_token", "string")
               /\ FieldTyped(doc, "token_type", "string")
               /\ FieldTyped(doc, "refresh_token", "string")
               /\ FieldTyped(doc, "expiry", "time"))
    THEN [err |-> "cannot unmarshal", ClientId |-> "", Token |-> NoToken]
    ELSE [err |-> "",
          ClientId |-> StringField(doc, "ClientId"),
          Token |-> [AccessToken  |-> StringField(doc, "access_token"),
                     TokenType    |-> StringField(doc, "token_type"),
                     RefreshToken |-> StringField(doc, "refresh_token"),
                     Expiry       |-> TimeField(doc, "expiry"),
                     raw          |-> "nil"]]

\* The cache file: absent, present but not readable (nor writable) by the
\* process, or a text.
AbsentFile == [kind |-> "absent", text |-> <<>>]

UnreadableFile == [kind |-> "unreadable", text |-> <<>>]

TextFile(doc) == [kind |-> "text", text |-> doc]

\* readCachedToken that takes the token of any client id.
readCachedTokenAnyClient(file, id) ==
    IF file.kind # "text" THEN [err |-> "read", token |-> NoToken]
    ELSE LET t == Unmarshal(file.text)
         IN  IF t.err # "" THEN [err |-> t.err, token |-> NoToken]
             ELSE [err |-> "", token |-> t.Token]

\* readCachedToken(tokenCacheFilename, clientId): the error, or the token.
readCachedToken(file, id) ==
    IF file.kind # "text" THEN [err |-> "read", token |-> NoToken]
    ELSE LET t == Unmarshal(file.text)
         IN  IF t.err # "" THEN [err |-> t.err, token |-> NoToken]
             ELSE IF t.ClientId # id
             THEN [err |-> "token client id mismatch", token |-> NoToken]
             ELSE [err |-> "", token |-> t.Token]

\* What ioutil.WriteFile may do: write the text; fail to open the file, which
\* it leaves as it was; fail after opening it, which leaves a cut text.
WriteOutcomes(file) ==
    IF file.kind = "unreadable" THEN {"open"} ELSE {"ok", "open", "cut"}

WriteFile(file, doc, outcome) ==
    CASE outcome = "ok"   -> TextFile(doc)
      [] outcome = "open" -> file
      [] outcome = "cut"  -> TextFile(Garbage)

\* saveToken that marshals the oauth2.Token alone, without the client id.
saveTokenWithoutClientId(file, t, id, outcome) ==
    [file |-> WriteFile(file, Tail(Marshal(id, t)), outcome),
     err  |-> IF outcome = "ok" THEN "" ELSE "write"]

\* saveToken that stores the built-in client id, whatever the id it is given.
saveTokenDefaultClientId(file, t, id, outcome) ==
    [file |-> WriteFile(file, Marshal(DefaultClientId, t), outcome),
     err  |-> IF outcome = "ok" THEN "" ELSE "write"]

\* saveToken(tokenCacheFilename, t, clientId): the file afterwards, and the
\* error it reports (and does not return).
saveToken(file, t, id, outcome) ==
    [file |-> WriteFile(file, Marshal(id, t), outcome),
     err  |-> IF outcome = "ok" THEN "" ELSE "write"]

\* Cache files a first process may find: none, an unreadable one, a text that
\* is no JSON, an empty object, an object whose ClientId is a number, a token
\* written with lower-case keys, and tokens saved under either client id.
InitialFiles ==
    { AbsentFile, UnreadableFile, TextFile(Garbage), TextFile(<<>>),
      TextFile(<<Member("ClientId", "number", 7),
                 Member("access_token", "string", "at0")>>),
      TextFile(<<Member("clientid", "string", DefaultClientId),
                 Member("access_token", "string", "at0")>>) }
        \cup {TextFile(Marshal(id, t)) : id \in ClientIds, t \in NewTokens}

\* The client id a cache file names for its token ("" when the file holds no
\* token that can be read): the id saveToken was given when it wrote the file.
StoredClientId(file) ==
    IF file.kind = "text" /\ Unmarshal(file.text).err = ""
    THEN Unmarshal(file.text).ClientId ELSE ""

TokenIdle ==
    /\ cacheFile = AbsentFile /\ cfgClientId = "" /\ tPc = "idle"
    /\ tToken = NoToken /\ tUsedCache = FALSE /\ tAuth = 0 /\ tWrites = 0
    /\ tSaved = FALSE /\ tErr = "" /\ tRuns = 0 /\ fileAtStart = AbsentFile
    /\ tPrevFailedId = "" /\ tIssuedId = "" /\ fileIssuedId = ""

TokenInit ==
    /\ cacheFile \in InitialFiles
    /\ cfgClientId = ""
    /\ tPc = "none"
    /\ tToken = NoToken
    /\ tUsedCache = FALSE
    /\ tAuth = 0
    /\ tWrites = 0
    /\ tSaved = FALSE
    /\ tErr = ""
    /\ tRuns = 0
    /\ fileAtStart = AbsentFile
    /\ tPrevFailedId = ""
    /\ tIssuedId = ""
    /\ fileIssuedId = StoredClientId(cacheFile)

\* main up to its call of getOAuthClient: the config file is read and
\* checkConfigValidity has replaced the placeholder client id.  tPrevFailedId
\* remembers, for the new process, the client id under which the process
\* before it obtained a token that it could not write ("" when it did not).
StartRun ==
    /\ tPc \in {"none", "done", "failed"}
    /\ tRuns < MaxAuthRuns
    /\ tRuns' = tRuns + 1
    /\ \E id \in ConfigClientIds : cfgClientId' = NormalizedClientId(id)
    /\ tPc' = "read"
    /\ tToken' = NoToken
    /\ tUsedCache' = FALSE
    /\ tAuth' = 0
    /\ tWrites' = 0
    /\ tSaved' = FALSE
    /\ tErr' = ""
    /\ fileAtStart' = cacheFile
    /\ tPrevFailedId' = IF tPc = "done" /\ tWrites = 1 /\ ~ tSaved
                         THEN ActiveClientId(cfgClientId) ELSE ""
    /\ tIssuedId' = ""
    /\ UNCHANGED <<cacheFile, fileIssuedId, cryptVars, keyVars, webVars, extVars>>

\* token, err = readCachedToken(tokenCacheFilename, oauthConfig.ClientID)
ReadCache ==
    /\ tPc = "read"
    /\ LET r == readCachedToken(cacheFile, ActiveClientId(cfgClientId))
       IN  IF r.err = ""
           THEN /\ tToken' = r.token /\ tUsedCache' = TRUE /\ tPc' = "return"
                /\ tIssuedId' = fileIssuedId
           ELSE tPc' = "authorize" /\ UNCHANGED <<tToken, tUsedCache, tIssuedId>>
    /\ UNCHANGED <<cacheFile, cfgClientId, tAuth, tWrites, tSaved, tErr, tRuns,
                   fileAtStart, tPrevFailedId, fileIssuedId, cryptVars, keyVars, webVars, extVars>>

\* The authorization started again after a first failure.
AuthorizeRetrying ==
    /\ tPc = "authorize"
    /\ tAuth' = tAuth + 1
    /\ \/ /\ \E t \in NewTokens : tToken' = t /\ tPc' = "save" /\ UNCHANGED tErr
          /\ tIssuedId' = ActiveClientId(cfgClientId)
       \/ /\ tAuth = 0
          /\ UNCHANGED <<tPc, tErr, tToken, tIssuedId>>
       \/ /\ tAuth > 0
          /\ \E e \in {"authorization", "exchange"} :
                tErr' = e /\ tPc' = "failed" /\ UNCHANGED <<tToken, tIssuedId>>
    /\ UNCHANGED <<cacheFile, cfgClientId, tUsedCache, tWrites, tSaved, tRuns,
                   fileAtStart, tPrevFailedId, fileIssuedId, cryptVars, keyVars, webVars, extVars>>

\* token, err = authorizeAndGetToken(oauthConfig, tryBrowserAuth): a token of
\* the token endpoint, or the error of the authorization or of the exchange,
\* with which getOAuthClient returns.
Authorize ==
    /\ tPc = "authorize"
    /\ tAuth' = tAuth + 1
    /\ \/ /\ \E t \in NewTokens : tToken' = t /\ tPc' = "save" /\ UNCHANGED tErr
          /\ tIssuedId' = ActiveClientId(cfgClientId)
       \/ \E e \in {"authorization", "exchange"} :
             tErr' = e /\ tPc' = "failed" /\ UNCHANGED <<tToken, tIssuedId>>
    /\ UNCHANGED <<cacheFile, cfgClientId, tUsedCache, tWrites, tSaved, tRuns,
                   fileAtStart, tPrevFailedId, fileIssuedId, cryptVars, keyVars, webVars, extVars>>

\* The client id under which the token in the cache file was issued, after
\* ioutil.WriteFile ended with the given outcome.
IssuedAfterWrite(before, issued, outcome) ==
    CASE outcome = "ok"   -> issued
      [] outcome = "open" -> before
      [] outcome = "cut"  -> ""

\* A getOAuthClient that returns the error of a failed write.
SaveTokenFatal ==
    /\ tPc = "save"
    /\ \E outcome \in WriteOutcomes(cacheFile) :
          LET r == saveToken(cacheFile, tToken, ActiveClientId(cfgClientId), outcome)
          IN  /\ cacheFile' = r.file
              /\ tSaved' = (r.err = "")
              /\ tErr' = r.err
              /\ tPc' = IF r.err = "" THEN "return" ELSE "failed"
              /\ fileIssuedId' = IssuedAfterWrite(fileIssuedId, tIssuedId, outcome)
    /\ tWrites' = tWrites + 1
    /\ UNCHANGED <<cfgClientId, tToken, tUsedCache, tAuth, tRuns,
                   fileAtStart, tPrevFailedId, tIssuedId, cryptVars, keyVars, webVars, extVars>>

\* saveToken(tokenCacheFilename, token, oauthConfig.ClientID)
SaveToken ==
    /\ tPc = "save"
    /\ \E outcome \in WriteOutcomes(cacheFile) :
          LET r == saveToken(cacheFile, tToken, ActiveClientId(cfgClientId), outcome)
          IN  /\ cacheFile' = r.file
              /\ tSaved' = (r.err = "")
              /\ fileIssuedId' = IssuedAfterWrite(fileIssuedId, tIssuedId, outcome)
    /\ tWrites' = tWrites + 1
    /\ tPc' = "return"
    /\ UNCHANGED <<cfgClientId, tToken, tUsedCache, tAuth, tErr, tRuns,
                   fileAtStart, tPrevFailedId, tIssuedId, cryptVars, keyVars, webVars, extVars>>

\* return oauthConfig.Client(ctx, token), nil
ReturnClient ==
    /\ tPc = "return"
    /\ tPc' = "done"
    /\ UNCHANGED <<cacheFile, cfgClientId, tToken, tUsedCache, tAuth, tWrites, tSaved,
                   tErr, tRuns, fileAtStart, tPrevFailedId, tIssuedId, fileIssuedId,
                   cryptVars, keyVars, webVars, extVars>>

TokenNext ==
    \/ StartRun
    \/ ReadCache
    \/ Authorize
    \/ SaveToken
    \/ ReturnClient

(***************************************************************************)
(* main: readConfigFile, getOAuthClient, then the command                  *)
(***************************************************************************)

\* The commands main may be given: genkey reads no config file; upload and ls
\* are commands of the list of lines 1004-1006; "sync" is not.
MainCommands == {"genkey", "upload", "ls", "sync"}

KnownCommands == {"upload", "ls"}

ConfigOf(out) ==
    [Salt |-> out[1], Passphrase_hash |-> out[2],
     Encrypted_key |-> out[3], Encrypted_key_iv |-> out[4]]

\* The [encryption] section holding what generateKey printed for the
\* passphrase "p".
ValidConfig ==
    ConfigOf(generateKey(<<112>>, Pattern(SaltLen, 1), Pattern(ContentKeyLen, 3),
                         Pattern(BlockSize, 5)).out)

\* A section written by hand without a salt, whose other three values are
\* right for the passphrase "p" and an empty salt.
SaltlessConfig ==
    ConfigOf(generateKey(<<112>>, <<>>, Pattern(ContentKeyLen, 3),
                         Pattern(BlockSize, 5)).out)

\* Wrong values for a field whose right value is v: none, one byte, an odd
\* number of digits, a character that is no digit, one byte too many.
BadValues(v) ==
    {<<>>, Take(v, 2), Take(v, 3), <<"z", "z">> \o Drop(v, 2), v \o <<"0", "0">>}

\* The [encryption] sections a config file may hold: the one "skicka init"
\* writes (every value commented out), a right one, the one without salt, and
\* a right one with one value replaced by a wrong one.
SampleConfigs ==
    {EmptyConfig, ValidConfig, SaltlessConfig}
        \cup {[ValidConfig EXCEPT !.Salt = x] : x \in BadValues(ValidConfig.Salt)}
        \cup {[ValidConfig EXCEPT !.Passphrase_hash = x] :
                  x \in BadValues(ValidConfig.Passphrase_hash)}
        \cup {[ValidConfig EXCEPT !.Encrypted_key = x] :
                  x \in BadValues(ValidConfig.Encrypted_key)}
        \cup {[ValidConfig EXCEPT !.Encrypted_key_iv = x] :
                  x \in BadValues(ValidConfig.Encrypted_key_iv)}

\* The token cache files main may find.
MainCacheFiles ==
    {AbsentFile, TextFile(Marshal(DefaultClientId, CHOOSE t \in NewTokens : t.TokenType # ""))}

\* One process, from the start of main.
MainInit ==
    /\ mainPc = "start"
    /\ cmd \in MainCommands
    /\ passphrase \in Passphrases
    /\ config \in SampleConfigs
    /\ key = NilBytes
    /\ stdout = <<>>
    /\ exitMsg = ""
    /\ runs = 1
    /\ wPc = [w \in Workers |-> "idle"]
    /\ wRet = [w \in Workers |-> NilBytes]
    /\ wUsed = [w \in Workers |-> NilBytes]
    /\ derivations = 0
    /\ rejected = 0
    /\ genSecret = NoSecret
    /\ configSecret = NoSecret
    /\ cacheFile \in MainCacheFiles
    /\ cfgClientId = ""
    /\ tPc = "none"
    /\ tToken = NoToken
    /\ tUsedCache = FALSE
    /\ tAuth = 0
    /\ tWrites = 0
    /\ tSaved = FALSE
    /\ tErr = ""
    /\ tRuns = 1
    /\ fileAtStart = AbsentFile
    /\ tPrevFailedId = ""
    /\ tIssuedId = ""
    /\ fileIssuedId = StoredClientId(cacheFile)

\* readConfigFile(*configFilename): the file is read into config and
\* checkConfigValidity ends the process when a value is invalid.
MainReadConfig ==
    /\ mainPc = "start" /\ cmd # "genkey" /\ exitMsg = ""
    /\ IF checkConfigValidity(config) > 0
       THEN /\ exitMsg' = "missing or invalid [encryption] value"
            /\ mainPc' = "exit"
       ELSE /\ mainPc' = "config"
            /\ UNCHANGED exitMsg
    /\ UNCHANGED <<passphrase, config, key, stdout, cmd, runs, wPc, wRet, wUsed,
                   derivations, rejected, genSecret, configSecret,
                   cryptVars, webVars, tokenVars, diagVars, upVars,
                   authVars, sanVars>>

\* main from the test of the command to the call of getOAuthClient.
MainCallOAuth ==
    /\ mainPc = "config"
    /\ IF cmd \notin KnownCommands
       THEN /\ exitMsg' = "usage"
            /\ mainPc' = "exit"
            /\ UNCHANGED <<tPc, fileAtStart>>
       ELSE /\ mainPc' = "oauth"
            /\ tPc' = "read"
            /\ fileAtStart' = cacheFile
            /\ UNCHANGED exitMsg
    /\ tIssuedId' = ""
    /\ UNCHANGED <<passphrase, config, key, stdout, cmd, runs, wPc, wRet, wUsed,
                   derivations, rejected, genSecret, configSecret,
                   cacheFile, cfgClientId, tToken, tUsedCache, tAuth, tWrites, tSaved,
                   tErr, tRuns, tPrevFailedId, fileIssuedId, cryptVars, webVars,
                   diagVars, upVars,
                   authVars, sanVars>>

\* getOAuthClient returned an error: printErrorAndExit.
MainOAuthFailed ==
    /\ mainPc = "oauth" /\ tPc = "failed"
    /\ exitMsg' = "error with OAuth2 Authorization"
    /\ mainPc' = "exit"
    /\ UNCHANGED <<passphrase, config, key, stdout, cmd, runs, wPc, wRet, wUsed,
                   derivations, rejected, genSecret, configSecret,
                   cryptVars, webVars, tokenVars, diagVars, upVars,
                   authVars, sanVars>>

\* getOAuthClient returned the client: the command runs; the workers of an
\* upload with encryption start on their files.
MainCommand ==
    /\ mainPc = "oauth" /\ tPc = "done"
    /\ IF cmd = "upload"
       THEN /\ wPc' = [w \in Workers |-> "check"]
            /\ mainPc' = "command"
            /\ UNCHANGED exitMsg
       ELSE /\ exitMsg' = "done"
            /\ mainPc' = "exit"
            /\ UNCHANGED wPc
    /\ UNCHANGED <<passphrase, config, key, stdout, cmd, runs, wRet, wUsed,
                   derivations, rejected, genSecret, configSecret,
                   cryptVars, webVars, tokenVars, diagVars, upVars,
                   authVars, sanVars>>

MainNext ==
    \/ GenerateKey
    \/ MainReadConfig
    \/ MainCallOAuth
    \/ ReadCache
    \/ Authorize
    \/ SaveToken
    \/ ReturnClient
    \/ MainOAuthFailed
    \/ MainCommand
    \/ \E w \in Workers : CheckKey(w)
    \/ \E w \in Workers : DecryptKey(w)
    \/ \E w \in Workers : AssignKey(w)
    \/ \E w \in Workers : MakeReader(w)
    \/ Finish

(***************************************************************************)
(* getFileContentsReaderForUpload, one call after another in one process   *)
(***************************************************************************)
MaxFileLen == 17

MaxCalls == 2

\* A path that os.Open cannot open.
MissingFile == <<-2>>

\* The contents of the files: every length up to MaxFileLen.
UpFiles == {Pattern(n, 9) : n \in 0..MaxFileLen}

\* The iv given by the caller: 16 random bytes; 8 bytes stand for a wrong one.
UpIvs == {Pattern(BlockSize, 7), Pattern(BlockSize, 8), Pattern(8, 7)}

UpResult(end, err, k, derived, bytes, size) ==
    [end |-> end, err |-> err, key |-> k, derived |-> derived,
     bytes |-> bytes, size |-> size]

\* getFileContentsReaderForUpload that does not prepend the iv.
getFileContentsReaderForUploadWithoutIv(globalKey, cfg, pass, file, encrypt, iv) ==
    IF file = MissingFile
    THEN UpResult("", "open", globalKey, FALSE, <<>>, 0)
    ELSE IF ~ encrypt
    THEN UpResult("", "", globalKey, FALSE, file, Len(file))
    ELSE LET d == IF globalKey = NilBytes
                  THEN decryptEncryptionKey(globalKey, cfg, pass)
                  ELSE KeyResult("", FALSE, globalKey)
         IN  IF d.end # ""
             THEN UpResult(d.end, "", globalKey, d.derived, <<>>, 0)
             ELSE LET r == makeEncrypterReader(d.key, iv)
                  IN  IF r.fatal # ""
                      THEN UpResult(r.fatal, "", d.key, d.derived, <<>>, 0)
                      ELSE UpResult("", "", d.key, d.derived,
                                    ReadAll(r, file), Len(file) + BlockSize)

\* getFileContentsReaderForUpload(path, encrypt, iv) in a process whose global
\* key is globalKey: how the process ends in it (end), the error returned,
\* the global key afterwards, whether the derivation ran, all the bytes the
\* returned reader gives, and the size returned.
getFileContentsReaderForUpload(globalKey, cfg, pass, file, encrypt, iv) ==
    IF file = MissingFile
    THEN UpResult("", "open", globalKey, FALSE, <<>>, 0)
    ELSE IF ~ encrypt
    THEN UpResult("", "", globalKey, FALSE, file, Len(file))
    ELSE LET d == IF globalKey = NilBytes
                  THEN decryptEncryptionKey(globalKey, cfg, pass)
                  ELSE KeyResult("", FALSE, globalKey)
         IN  IF d.end # ""
             THEN UpResult(d.end, "", globalKey, d.derived, <<>>, 0)
             ELSE LET r == makeEncrypterReader(d.key, iv)
                  IN  IF r.fatal # ""
                      THEN UpResult(r.fatal, "", d.key, d.derived, <<>>, 0)
                      ELSE UpResult("", "", d.key, d.derived,
                                    Take(iv, BlockSize) \o ReadAll(r, file),
                                    Len(file) + BlockSize)

\* A process whose config holds a right [encryption] section.
UpInit ==
    /\ passphrase \in Passphrases
    /\ config = ValidConfig
    /\ key = NilBytes
    /\ stdout = <<>> /\ exitMsg = "" /\ cmd = "upload" /\ runs = 1
    /\ wPc = <<>> /\ wRet = <<>> /\ wUsed = <<>>
    /\ derivations = 0 /\ rejected = 0
    /\ genSecret = NoSecret /\ configSecret = NoSecret
    /\ uPc = "idle" /\ uFile = <<>> /\ uEncrypt = FALSE /\ uIv = <<>>
    /\ uOut = <<>> /\ uSize = 0 /\ uCalls = 0

\* The caller picks a file, whether to encrypt it, and the iv.
CallUpload ==
    /\ uPc \in {"idle", "returned", "error"} /\ exitMsg = ""
    /\ uCalls < MaxCalls
    /\ uCalls' = uCalls + 1
    /\ uFile' \in UpFiles \cup {MissingFile}
    /\ uEncrypt' \in BOOLEAN
    /\ uIv' \in UpIvs
    /\ uOut' = <<>>
    /\ uSize' = 0
    /\ uPc' = "called"
    /\ UNCHANGED <<keyVars, cryptVars, webVars, tokenVars, mainVars, diagVars,
                   authVars, sanVars>>

\* The call, and the reading of the returned reader to its end.
GetReader ==
    /\ uPc = "called"
    /\ LET r == getFileContentsReaderForUpload(key, config, passphrase,
                                               uFile, uEncrypt, uIv)
       IN  /\ key' = r.key
           /\ derivations' = derivations + (IF r.derived THEN 1 ELSE 0)
           /\ exitMsg' = r.end
           /\ uOut' = r.bytes
           /\ uSize' = r.size
           /\ uPc' = IF r.end # "" THEN "exit"
                     ELSE IF r.err # "" THEN "error" ELSE "returned"
    /\ UNCHANGED <<passphrase, config, stdout, cmd, runs, wPc, wRet, wUsed,
                   rejected, genSecret, configSecret, uFile, uEncrypt, uIv, uCalls,
                   cryptVars, webVars, tokenVars, mainVars, diagVars,
                   authVars, sanVars>>

UpNext == CallUpload \/ GetReader

(***************************************************************************)
(* Diagnostics: sanitize and the places that write to the log and stderr   *)
(***************************************************************************)
MaxEmits == 2

\* A text is a sequence of characters.  The values the [google] section may
\* give as client id, client secret and API key, and a bearer token.
SecretClientId == <<"c", "i", "d">>

SecretClientSecret == <<"c", "s", "e", "c", "r", "e", "t">>

SecretApiKey == <<"a", "k", "e", "y">>

BearerToken == <<"t", "o", "k">>

\* The literal text at the head of the regular expression authre.
AuthPrefix ==
    <<"A", "u", "t", "h", "o", "r", "i", "z", "a", "t", "i", "o", "n", ":",
      " ", "B", "e", "a", "r", "e", "r", " ">>

\* The texts sanitize puts in the place of what it removes.
ClientIdMarker ==
    <<"[", "*", "*", "*", "C", "l", "i", "e", "n", "t", "I", "d", "*", "*",
      "*", "]">>

ClientSecretMarker ==
    <<"[", "*", "*", "*", "C", "l", "i", "e", "n", "t", "S", "e", "c", "r",
      "e", "t", "*", "*", "*", "]">>

ApiKeyMarker ==
    <<"[", "*", "*", "*", "A", "p", "i", "K", "e", "y", "*", "*", "*", "]">>

AuthTokenMarker ==
    <<"[", "*", "*", "*", "A", "u", "t", "h", "T", "o", "k", "e", "n", "*",
      "*", "*", "]">>

\* The characters the class \s of the regular expression holds.
Whitespace == {" ", "\t", "\n", "\f", "\r"}

\* The texts handed to the emitters: one without a secret, and texts that
\* hold the client id (twice), the client secret, the API key (as in the URL
\* of a failed request, which carries ?key=XXX), and a bearer token in the
\* header line of a dumped request.
DiagTexts ==
    { <<"x">>,
      SecretClientId \o <<"x">> \o SecretClientId,
      <<"x", " ">> \o SecretClientSecret,
      <<"k", "e", "y", "=">> \o SecretApiKey,
      AuthPrefix \o BearerToken \o <<" ", "x">> }

\* strings.Replace(s, old, new, -1) for a non-empty old: the occurrences of
\* old, from the left and without overlap, are replaced by new.
RECURSIVE ReplaceAll(_, _, _)
ReplaceAll(s, old, new) ==
    IF Len(s) < Len(old) THEN s
    ELSE IF Take(s, Len(old)) = old
    THEN new \o ReplaceAll(Drop(s, Len(old)), old, new)
    ELSE <<Head(s)>> \o ReplaceAll(Tail(s), old, new)

\* The length of the longest run of characters outside \s at the head of s:
\* what [^\s]* matches there.
RECURSIVE NonSpaceRun(_)
NonSpaceRun(s) ==
    IF s = <<>> \/ Head(s) \in Whitespace THEN 0 ELSE 1 + NonSpaceRun(Tail(s))

\* authre.ReplaceAllLiteralString(s, "Authorization: Bearer [***AuthToken***]"):
\* the matches of "Authorization: Bearer [^\s]*", from the left and without
\* overlap, are replaced by the literal text.
RECURSIVE ReplaceAuth(_)
ReplaceAuth(s) ==
    IF Len(s) < Len(AuthPrefix) THEN s
    ELSE IF Take(s, Len(AuthPrefix)) = AuthPrefix
    THEN LET rest == Drop(s, Len(AuthPrefix))
         IN  AuthPrefix \o AuthTokenMarker
                 \o ReplaceAuth(Drop(rest, NonSpaceRun(rest)))
    ELSE <<Head(s)>> \o ReplaceAuth(Tail(s))

\* sanitize(s), with the values of config.Google
sanitize(s, id, secret, apiKey) ==
    LET s1 == IF id # <<>> THEN ReplaceAll(s, id, ClientIdMarker) ELSE s
        s2 == IF secret # <<>> THEN ReplaceAll(s1, secret, ClientSecretMarker) ELSE s1
        s3 == IF apiKey # <<>> THEN ReplaceAll(s2, apiKey, ApiKeyMarker) ELSE s2
    IN  ReplaceAuth(s3)

\* The config has been read; nothing has been written yet.
DiagInit ==
    /\ gClientId \in {<<>>, SecretClientId}
    /\ gClientSecret \in {<<>>, SecretClientSecret}
    /\ gApiKey \in {<<>>, SecretApiKey}
    /\ emitted = {}

\* The process has not ended in printErrorAndExit.
DiagRunning ==
    /\ Cardinality(emitted) < MaxEmits
    /\ \A e \in emitted : e.chan # "fatal"

\* The text is written on the channel (the log or stderr).
Emit(ch, text) ==
    /\ emitted' = emitted \cup {[chan |-> ch, text |-> text]}
    /\ UNCHANGED <<gClientId, gClientSecret, gApiKey,
                   cryptVars, keyVars, webVars, tokenVars, mainVars, upVars,
                   authVars, sanVars>>

\* message(format, args...), when not quiet
Message ==
    /\ DiagRunning
    /\ \E t \in DiagTexts : Emit("message", sanitize(t, gClientId, gClientSecret, gApiKey))

\* debug.Printf(format, args...), when debugging
DebugPrintf ==
    /\ DiagRunning
    /\ \E t \in DiagTexts : Emit("debug", sanitize(t, gClientId, gClientSecret, gApiKey))

\* printErrorAndExit(err), also as called by checkFatalError
PrintErrorAndExit ==
    /\ DiagRunning
    /\ \E t \in DiagTexts : Emit("fatal", t)

\* addErrorAndPrintMessage(totalErrors, message, err)
AddErrorAndPrintMessage ==
    /\ DiagRunning
    /\ \E t \in DiagTexts : Emit("error", t)

\* The text of the handler's log line, before the request.
StateMismatchText ==
    <<"S", "t", "a", "t", "e", " ", "d", "o", "e", "s", "n", "'", "t", " ",
      "m", "a", "t", "c", "h", ":", " ", "r", "e", "q", " ", "=", " ">>

\* the handler of codeFromWeb: log.Printf("State doesn't match: req = %#v", req)
HandlerLog ==
    /\ DiagRunning
    /\ \E t \in DiagTexts : Emit("handler", StateMismatchText \o t)

\* saveToken: the report of a failed write, with the file name and the error
SaveTokenWarning ==
    /\ DiagRunning
    /\ \E t \in DiagTexts : Emit("tokencache", t)

DiagNext ==
    \/ Message
    \/ DebugPrintf
    \/ PrintErrorAndExit
    \/ AddErrorAndPrintMessage
    \/ HandlerLog
    \/ SaveTokenWarning

(***************************************************************************)
(* sanitize as a function of its argument and of config.Google             *)
(***************************************************************************)
\* The number of parts an argument of sanitize is put together from.
MaxParts == 3

\* A configured value that is also a word of the replacement texts.
MarkerWord == <<"T", "o", "k", "e", "n">>

\* The values config.Google may hold: none, a value that shares no word with
\* the replacement texts, and one that does.
SanValues == {<<>>, SecretClientId, MarkerWord}

\* The parts of an argument: the values, a letter, a space, the head of the
\* authorization header and a bearer token.
SanParts == {SecretClientId, MarkerWord, <<"x">>, <<" ">>, AuthPrefix, BearerToken}

\* The texts of at most n parts.
RECURSIVE SanTexts(_)
SanTexts(n) ==
    IF n = 0 THEN {<<>>}
    ELSE LET shorter == SanTexts(n - 1)
         IN  shorter \cup {p \o t : p \in SanParts, t \in shorter}

\* sanitize is called with a text, config.Google holding its values.
SanInit ==
    /\ gClientId \in SanValues
    /\ gClientSecret \in SanValues
    /\ gApiKey \in SanValues
    /\ emitted = {}
    /\ sPc = "called"
    /\ sIn \in SanTexts(MaxParts)
    /\ sOut = <<>>

\* sanitize(s) runs and returns its result.
Sanitize ==
    /\ sPc = "called"
    /\ sOut' = sanitize(sIn, gClientId, gClientSecret, gApiKey)
    /\ sPc' = "returned"
    /\ UNCHANGED <<sIn, cryptVars, keyVars, webVars, tokenVars, mainVars, diagVars,
                   upVars, authVars>>

SanNext == Sanitize

(***************************************************************************)
(* Specifications                                                          *)
(***************************************************************************)
MainIdle == mainPc = "idle"

DiagIdle ==
    gClientId = <<>> /\ gClientSecret = <<>> /\ gApiKey = <<>> /\ emitted = {}

UpIdle ==
    /\ uPc = "idle" /\ uFile = <<>> /\ uEncrypt = FALSE /\ uIv = <<>>
    /\ uOut = <<>> /\ uSize = 0 /\ uCalls = 0

SanIdle == sPc = "idle" /\ sIn = <<>> /\ sOut = <<>>

ExtIdle == MainIdle /\ DiagIdle /\ UpIdle /\ AuthIdle /\ SanIdle

ExtIdleButMain == DiagIdle /\ UpIdle /\ AuthIdle /\ SanIdle

CryptSpecInit == CryptInit /\ KeyIdle /\ WebIdle /\ TokenIdle /\ ExtIdle

CryptSpec == CryptSpecInit /\ [][CryptNext]_vars

KeySpecInit == KeyInit /\ CryptIdle /\ WebIdle /\ TokenIdle /\ ExtIdle

KeySpec == KeySpecInit /\ [][KeyNext]_vars

WebSpecInit == WebInit /\ CryptIdle /\ KeyIdle /\ TokenIdle /\ ExtIdle

WebSpec == WebSpecInit /\ [][WebNext]_vars

TokenSpecInit == TokenInit /\ CryptIdle /\ KeyIdle /\ WebIdle /\ ExtIdle

TokenSpec == TokenSpecInit /\ [][TokenNext]_vars

UpSpecInit ==
    /\ UpInit /\ CryptIdle /\ WebIdle /\ TokenIdle /\ MainIdle /\ DiagIdle
    /\ AuthIdle /\ SanIdle

UpSpec == UpSpecInit /\ [][UpNext]_vars

DiagSpecInit ==
    /\ DiagInit /\ CryptIdle /\ KeyIdle /\ WebIdle /\ TokenIdle /\ MainIdle /\ UpIdle
    /\ AuthIdle /\ SanIdle

DiagSpec == DiagSpecInit /\ [][DiagNext]_vars

AuthSpecInit ==
    /\ AuthInit /\ CryptIdle /\ KeyIdle /\ TokenIdle /\ MainIdle /\ DiagIdle /\ UpIdle
    /\ SanIdle

AuthSpec == AuthSpecInit /\ [][AuthNext]_vars

SanSpecInit ==
    /\ SanInit /\ CryptIdle /\ KeyIdle /\ WebIdle /\ TokenIdle /\ MainIdle /\ UpIdle
    /\ AuthIdle

SanSpec == SanSpecInit /\ [][SanNext]_vars

MainSpecInit == MainInit /\ CryptIdle /\ WebIdle /\ ExtIdleButMain

MainSpec == MainSpecInit /\ [][MainNext]_vars

(***************************************************************************)
(* Properties of the key envelope and of the stream cipher                 *)
(***************************************************************************)

\* C1: when the workers of one process all reach the lazy initialisation of
\* the key, the passphrase derivation of decryptEncryptionKey runs at most
\* once in that process, and the workers that built their cipher stream all
\* built it with the same key.
C1_OneDerivationSameKey ==
    cmd = "upload" =>
        /\ derivations <= 1
        /\ \A v, w \in Workers :
              (wPc[v] = "done" /\ wPc[w] = "done") => wUsed[v] = wUsed[w]

\* The supplied passphrase does not derive the stored verifier.
WrongPassphrase ==
    /\ cmd = "upload"
    /\ passphrase # <<>>
    /\ HexOk(config.Salt) /\ HexOk(config.Passphrase_hash)
    /\ Take(PBKDF2(passphrase, HexDecode(config.Salt), HashLen), VerifierLen)
          # HexDecode(config.Passphrase_hash)

\* C2: when the first 32 bytes derived from the supplied passphrase and the
\* stored salt differ from the stored verifier, every call of
\* decryptEncryptionKey ends the process with "incorrect passphrase", no call
\* returns a key, no worker gets past the call, and the global key stays nil;
\* every process started with such a passphrase ends the same way.
C2_WrongPassphraseRejected ==
    WrongPassphrase =>
        /\ key = NilBytes
        /\ \A w \in Workers :
              /\ wRet[w] = NilBytes
              /\ wUsed[w] = NilBytes
              /\ wPc[w] \in {"check", "enter"}
        /\ exitMsg \in {"", "incorrect passphrase"}
        /\ (derivations > 0) <=> (exitMsg = "incorrect passphrase")
        /\ derivations <= 1

\* A second process in a row has been refused for a wrong passphrase, with a
\* config that generateKey produced.
C2_Witness ==
    /\ WrongPassphrase
    /\ configSecret # NoSecret
    /\ exitMsg = "incorrect passphrase"
    /\ rejected >= 2

\* The config holds the four values of a generateKey run, and the passphrase
\* is the one that run was given.
SamePassphrase ==
    /\ cmd = "upload"
    /\ configSecret # NoSecret
    /\ passphrase = configSecret.passphrase

\* C3: with the four values generateKey printed stored in the config, and the
\* same passphrase, decryptEncryptionKey is never refused for an incorrect
\* passphrase (nor for the stored values) and every key it returns, and the
\* global key once set, is the ContentKey generateKey generated.
C3_UnwrapReturnsGeneratedKey ==
    SamePassphrase =>
        /\ exitMsg \in {"", "done", "panic: key aready decrypted!"}
        /\ \A w \in Workers :
              /\ wPc[w] = "assign" => wRet[w] = configSecret.key
              /\ wRet[w] \in {NilBytes, configSecret.key}
              /\ wUsed[w] \in {NilBytes, configSecret.key}
        /\ key \in {NilBytes, configSecret.key}

\* A worker has unwrapped the key and built its cipher stream with it.
C3_Witness ==
    /\ SamePassphrase
    /\ \E w \in Workers :
          /\ wPc[w] = "done"
          /\ wRet[w] = configSecret.key
          /\ wUsed[w] = configSecret.key

\* C4: for a key aes.NewCipher accepts and a 16-byte iv, encryptBytes and
\* decryptBytes both return, and decryptBytes(key, iv, encryptBytes(key, iv, P))
\* is P, for plaintexts of every length from 0 to MaxPlainLen.
C4_RoundTrip ==
    /\ (cKey # NilBytes /\ Len(cKey) \in AESKeySizes /\ Len(cIv) = BlockSize)
          => cPc \in {"start", "encrypted", "decrypted"}
    /\ cPc = "decrypted" => cOut = cPlain

\* A plaintext of more than two blocks whose last block is short was
\* encrypted to something else and decrypted back.
C4_Witness ==
    /\ cPc = "decrypted"
    /\ Len(cPlain) > 2 * BlockSize
    /\ Len(cPlain) % BlockSize # 0
    /\ cCipher # cPlain
    /\ cOut = cPlain

\* The bytes generateKey must keep to itself.
GenSecrets == {genSecret.passphrase, genSecret.key, genSecret.keyEncryptKey}

\* C21: what generateKey has printed is nothing (before it ran, or when it
\* ended for a missing passphrase) or exactly four values: the hex text of
\* the salt, of the first 32 bytes of the derivation, of the key encrypted
\* under the last 32 bytes, and of the iv; none of the four is the
\* hex text of the passphrase, of the key or of the last 32 bytes of the
\* derivation.
C21_OnlyEnvelopePrinted ==
    cmd = "genkey" =>
        \/ stdout = <<>> /\ genSecret = NoSecret
        \/ /\ Len(stdout) = 4
           /\ genSecret # NoSecret
           /\ \E salt \in Salts, iv \in KeyIvs :
                 LET hash == PBKDF2(genSecret.passphrase, salt, HashLen)
                 IN  /\ genSecret.keyEncryptKey = Drop(hash, 32)
                     /\ stdout[1] = HexEncode(salt)
                     /\ stdout[2] = HexEncode(Take(hash, 32))
                     /\ stdout[3] = HexEncode(encryptBytes(Drop(hash, 32), iv,
                                                          genSecret.key).bytes)
                     /\ stdout[4] = HexEncode(iv)
           /\ \A i \in 1..4 : HexDecode(stdout[i]) \notin GenSecrets

\* generateKey has printed its four values for a passphrase of two bytes.
C21_Witness ==
    /\ cmd = "genkey"
    /\ exitMsg = "done"
    /\ Len(stdout) = 4
    /\ Len(genSecret.passphrase) = 2
    /\ genSecret.key \in ContentKeys

\* C24: decryptEncryptionKey is never entered with the global key already
\* set: no process ends in its "key aready decrypted!" panic.
C24_PanicUnreachable ==
    exitMsg # "panic: key aready decrypted!"

C13_KeyCachedAfterUnwrap ==
    [][runs' = runs =>
          /\ key # NilBytes => key' = key
          /\ \A v \in Workers :
                (/\ \E w \in Workers : wRet[w] # NilBytes
                 /\ wPc[v] = "check"
                 /\ wPc'[v] # "check")
                    => (wPc'[v] = "encrypt" /\ derivations' = derivations)]_vars

(***************************************************************************)
(* Properties of the callback listener                                     *)
(***************************************************************************)

\* The handler of request h has passed the state check with a code: it is
\* blocked in its send on ch, or codeFromWeb has received its code.
ValidHandled(h) == hPc[h] = "send" \/ mFrom = h

\* C5: once the browser launch has succeeded and a request with the nonce and
\* a code has been handled, codeFromWeb is never stuck before its return,
\* whatever other requests have arrived (it has returned, or a step of the
\* program is possible), and when it has returned it returns a code and the
\* listener is closed.
C5_ValidCodeReturned ==
    (waited /\ \E h \in 1..Len(hPc) : ValidHandled(h)) =>
        /\ mPc = "returned" \/ ENABLED WebProgress
        /\ mPc = "returned" => (mCode # "" /\ listener = "closed")

\* C6: a request whose state is not the nonce never reaches the send on ch,
\* gets an error status, and is never the request whose code codeFromWeb
\* received; the code received is the code of a request with the nonce.
C6_MismatchNeverDelivers ==
    /\ \A h \in 1..Len(reqs) :
          reqs[h].state # Nonce =>
              /\ hPc[h] # "send"
              /\ mFrom # h
              /\ hPc[h] = "done" => hResp[h] \in {404, 500}
    /\ (mCode # "" \/ mFrom # 0) =>
          /\ mFrom \in 1..Len(reqs)
          /\ reqs[mFrom].state = Nonce
          /\ reqs[mFrom].code = mCode

\* A request with a code and a wrong state was answered 500 while codeFromWeb
\* is still waiting for the code.
C6_Witness ==
    /\ mPc = "waitCode"
    /\ \E h \in 1..Len(reqs) :
          /\ reqs[h].path = "/" /\ reqs[h].state # Nonce /\ reqs[h].code # ""
          /\ hPc[h] = "done" /\ hResp[h] = 500

\* C7: when every launcher has failed, codeFromWeb has not waited on ch, has
\* received no code, and is never stuck before its return (it has returned,
\* or a step of the program is possible), whatever requests have arrived.
C7_LaunchFailureReturns ==
    mErr # "" =>
        /\ ~ waited
        /\ mCode = ""
        /\ mPc = "returned" \/ ENABLED WebProgress

\* C8: when codeFromWeb has returned, with the code or with the launch error,
\* the listener is closed and no request is outstanding.
C8_ReturnedImpliesClosed ==
    mPc = "returned" =>
        /\ listener = "closed"
        /\ \A h \in 1..Len(hPc) : hPc[h] = "done"

\* codeFromWeb has returned the code of a request after other requests were
\* refused.
C8_Witness ==
    /\ mPc = "returned"
    /\ mCode # ""
    /\ listener = "closed"
    /\ Len(reqs) > 1

\* A request for /favicon.ico, or a request with the nonce and no code.
OtherRequest(r) ==
    \/ r.path = "/favicon.ico"
    \/ r.state = Nonce /\ r.code = ""

\* C19: a favicon probe is answered 404 and a request with the nonce and no
\* code is answered 500; neither reaches the send on ch nor is the request
\* whose code codeFromWeb received, so that codeFromWeb leaves its wait for
\* the code only with the code of a request for another path that carries one.
C19_OtherRequestsLeaveWaiter ==
    /\ \A h \in 1..Len(reqs) :
          OtherRequest(reqs[h]) =>
              /\ hPc[h] # "send"
              /\ mFrom # h
              /\ hPc[h] = "done" =>
                    hResp[h] = (IF reqs[h].path = "/favicon.ico" THEN 404 ELSE 500)
    /\ (waited /\ mPc # "waitCode") =>
          /\ mFrom \in 1..Len(reqs)
          /\ ~ OtherRequest(reqs[mFrom])
          /\ mCode # ""

\* A favicon probe and a request with the nonce and no code have both been
\* answered, and codeFromWeb is still waiting for the code.
C19_Witness ==
    /\ mPc = "waitCode"
    /\ \E h \in 1..Len(reqs) :
          reqs[h].path = "/favicon.ico" /\ hPc[h] = "done" /\ hResp[h] = 404
    /\ \E h \in 1..Len(reqs) :
          /\ reqs[h].path = "/" /\ reqs[h].state = Nonce /\ reqs[h].code = ""
          /\ hPc[h] = "done" /\ hResp[h] = 500

\* C25: a handler is at its send on ch only while codeFromWeb can still come
\* to receive from ch; once codeFromWeb has left for its return, with a code
\* or with the launch error, no handler is left at the send, where nothing
\* would ever release it and the Close that waits for it.
C25_NoHandlerBlockedForever ==
    \A h \in 1..Len(hPc) :
        hPc[h] = "send" => mPc \notin {"closing", "closeWait", "returned"}

(***************************************************************************)
(* Properties of authorizeAndGetToken                                      *)
(***************************************************************************)

\* C22: without tryBrowser no listener is started, no launcher is run and no
\* request is served; the authorization URL is printed, followed by the
\* prompt, the code is what Scanln read from the line typed, and the call
\* ends after exactly one token exchange, made with that code.
C22_ManualFlow ==
    ~ aTryBrowser =>
        /\ listener = "none" /\ lPc = "none" /\ ~ urlOut
        /\ mPc = "idle" /\ reqs = <<>>
        /\ aPc # "start" =>
              /\ Len(aPrinted) = 2
              /\ aPrinted[1].url = AuthCodeURL(OobURL, Nonce)
        /\ aPc \in {"exchange", "token", "failed"} => aCode = Scanln(aLine)
        /\ Len(aExchanges) = IF aPc \in {"token", "failed"} THEN 1 ELSE 0
        /\ \A i \in 1..Len(aExchanges) : aExchanges[i].code = Scanln(aLine)

\* The manual flow has ended with a token, the code being the first word of
\* a line of two words.
C22_Witness ==
    /\ ~ aTryBrowser
    /\ aPc = "token"
    /\ aLine = <<"a", "x">>
    /\ aExchanges = <<[code |-> "a", redirect_uri |-> OobURL]>>

\* C26: a token exchange carries the redirect URL of the authorization URL
\* built in the same call: the URL of the listener in the browser flow, the
\* out-of-band URL in the manual flow; once the authorization URL is built,
\* the RedirectURL of the configuration stays the one it was built with.
C26_ExchangeRedirectMatchesURL ==
    /\ authURL # NoURL =>
          /\ authURL.redirect_uri = oRedirect
          /\ authURL.redirect_uri = IF aTryBrowser THEN ListenerURL ELSE OobURL
    /\ \A i \in 1..Len(aExchanges) :
          /\ authURL # NoURL
          /\ aExchanges[i].redirect_uri = authURL.redirect_uri

\* The browser flow has ended with a token: the exchange was made with the
\* code a handler delivered and with the URL of the listener.
C26_Witness ==
    /\ aTryBrowser
    /\ aPc = "token"
    /\ aExchanges = <<[code |-> "b", redirect_uri |-> ListenerURL]>>
    /\ authURL = AuthCodeURL(ListenerURL, Nonce)

(***************************************************************************)
(* Properties of the token cache                                           *)
(***************************************************************************)

\* The cache file, as getOAuthClient found it, is readable, parses, and the
\* client id stored in it is the active one.
UsableAtStart ==
    /\ fileAtStart.kind = "text"
    /\ Unmarshal(fileAtStart.text).err = ""
    /\ StringField(fileAtStart.text, "ClientId") = ActiveClientId(cfgClientId)

\* getOAuthClient has read the cache and gone on.
PastRead == tPc \in {"authorize", "save", "return", "done", "failed"}

\* C9: getOAuthClient takes the cached token exactly when the cache file is
\* readable, parses and stores the active client id, and then it starts no
\* authorization, writes nothing and leaves the file as it was; in every other
\* case it starts the authorization, once.
C9_CachedTokenUsedIffUsable ==
    PastRead =>
        /\ tUsedCache <=> UsableAtStart
        /\ tUsedCache =>
              /\ tPc \in {"return", "done"}
              /\ tAuth = 0 /\ tWrites = 0 /\ cacheFile = fileAtStart
              /\ tToken.AccessToken = StringField(fileAtStart.text, "access_token")
        /\ (~ tUsedCache /\ tPc # "authorize") => tAuth = 1
        /\ (~ tUsedCache /\ tPc = "authorize") => tAuth = 0

\* A later process found a cache file holding a token of an earlier
\* authorization under its client id, took it and returned.
C9_Witness ==
    /\ tRuns >= 2
    /\ tPc = "done"
    /\ tUsedCache
    /\ tToken.AccessToken \in {t.AccessToken : t \in NewTokens}

\* Two tokens are equivalent when their access token, token type and refresh
\* token are equal and they expire at the same instant.
TokenEquiv(a, b) ==
    /\ a.AccessToken = b.AccessToken
    /\ a.TokenType = b.TokenType
    /\ a.RefreshToken = b.RefreshToken
    /\ a.Expiry.instant = b.Expiry.instant

\* C10: after saveToken(file, t, c) has written the file, readCachedToken(file, c)
\* returns a token equivalent to t, and readCachedToken(file, c') returns an
\* error for every other client id c'.
C10_SaveThenRead ==
    tSaved =>
        LET c == ActiveClientId(cfgClientId)
        IN  /\ readCachedToken(cacheFile, c).err = ""
            /\ TokenEquiv(readCachedToken(cacheFile, c).token, tToken)
            /\ \A d \in ClientIds \ {c} : readCachedToken(cacheFile, d).err # ""

\* A token without refresh token and token type, and one that differs from
\* what is read back in its unsaved parts, was saved under the configured
\* client id.
C10_Witness ==
    /\ tSaved
    /\ cfgClientId = "custom-id"
    /\ tToken.RefreshToken = ""
    /\ readCachedToken(cacheFile, "custom-id").token # tToken

\* C11: when the authorization or the exchange of the code fails,
\* getOAuthClient returns that error after one attempt, with no token and no
\* client, without a write, and the cache file is what it was when the
\* process started; getOAuthClient returns an error in no other case.
C11_AuthFailureLeavesCache ==
    /\ tPc = "failed" =>
          /\ tErr \in {"authorization", "exchange"}
          /\ tAuth = 1
          /\ tWrites = 0 /\ ~ tSaved
          /\ tToken = NoToken /\ ~ tUsedCache
          /\ cacheFile = fileAtStart
    /\ tErr # "" => tPc = "failed"

\* A second process in a row failed in the exchange, with a cache file that
\* holds a token of another client id, still there.
C11_Witness ==
    /\ tRuns = 2
    /\ tPc = "failed"
    /\ tErr = "exchange"
    /\ cacheFile.kind = "text"
    /\ Unmarshal(cacheFile.text).err = ""
    /\ cacheFile = fileAtStart

\* C12: when the token obtained by the authorization could not be written,
\* getOAuthClient goes on to return the client of that token with no error,
\* the cache file holds no token usable under the active client id, and the
\* next process with that client id does not take a cached token but
\* authorizes again.
C12_SaveFailureStillReturns ==
    /\ (tWrites = 1 /\ ~ tSaved) =>
          /\ tPc \in {"return", "done"}
          /\ tErr = ""
          /\ tAuth = 1
          /\ tToken \in NewTokens
          /\ readCachedToken(cacheFile, ActiveClientId(cfgClientId)).err # ""
    /\ (tPrevFailedId # "" /\ tPrevFailedId = ActiveClientId(cfgClientId) /\ PastRead) =>
          /\ ~ tUsedCache
          /\ tPc # "authorize" => tAuth = 1

\* The process after one whose write failed, with the same client id, has
\* authorized again and returned its client.
C12_Witness ==
    /\ tPrevFailedId # ""
    /\ tPrevFailedId = ActiveClientId(cfgClientId)
    /\ tPc = "done"
    /\ tAuth = 1
    /\ tToken \in NewTokens

\* C23: whatever client id each process is configured with, the token of the
\* client getOAuthClient returns was issued under the client id active in
\* this process (by the authorization of this process, or by the one whose
\* token the cache file holds), and after a successful write the cache file
\* names the active client id.
C23_ClientUnderActiveId ==
    /\ tPc \in {"return", "done"} =>
          /\ tIssuedId = ActiveClientId(cfgClientId)
          /\ tToken # NoToken
    /\ tSaved =>
          /\ tPc \in {"return", "done"}
          /\ StoredClientId(cacheFile) = ActiveClientId(cfgClientId)
          /\ fileIssuedId = ActiveClientId(cfgClientId)

\* A second process, configured with no client id of its own, found the token
\* cached under the custom client id, authorized under the built-in one,
\* saved its token and returned its client.
C23_Witness ==
    /\ tRuns = 2
    /\ tPc = "done"
    /\ cfgClientId = ""
    /\ StoredClientId(fileAtStart) = "custom-id"
    /\ tSaved
    /\ tIssuedId = DefaultClientId

(***************************************************************************)
(* Properties of main and of the [encryption] section                      *)
(***************************************************************************)

\* The value is the hex text of exactly n bytes.
DecodesTo(value, n) == HexOk(value) /\ Len(HexDecode(value)) = n

\* Every value of the section decodes to its expected length.
ConfigLengthsOk(cfg) ==
    /\ DecodesTo(cfg.Salt, 32)
    /\ DecodesTo(cfg.Passphrase_hash, 32)
    /\ DecodesTo(cfg.Encrypted_key, 32)
    /\ DecodesTo(cfg.Encrypted_key_iv, 16)

\* A value of the section is present and does not decode to its expected
\* length.
PresentValueWrong(cfg) ==
    \/ cfg.Salt # <<>> /\ ~ DecodesTo(cfg.Salt, 32)
    \/ cfg.Passphrase_hash # <<>> /\ ~ DecodesTo(cfg.Passphrase_hash, 32)
    \/ cfg.Encrypted_key # <<>> /\ ~ DecodesTo(cfg.Encrypted_key, 32)
    \/ cfg.Encrypted_key_iv # <<>> /\ ~ DecodesTo(cfg.Encrypted_key_iv, 16)

\* C14: decryptEncryptionKey runs its derivation only with a config whose
\* four values decode to 32, 32, 32 and 16 bytes, a config with any other
\* value having ended the process at startup.
C14_DerivationOnlyWithCheckedLengths ==
    (cmd = "upload" /\ derivations > 0) => ConfigLengthsOk(config)

C16_MissingPassphraseFatal ==
    (passphrase = <<>> /\ cmd \in {"genkey", "upload"}) =>
        /\ derivations = 0
        /\ stdout = <<>> /\ genSecret = NoSecret
        /\ key = NilBytes
        /\ \A w \in Workers :
              /\ wPc[w] \in {"idle", "check", "enter"}
              /\ wRet[w] = NilBytes /\ wUsed[w] = NilBytes
        /\ exitMsg # "done"
        /\ (cmd = "genkey" /\ exitMsg # "") =>
              exitMsg = "SKICKA_PASSPHRASE environment variable not set."
        /\ (cmd = "upload" /\ mainPc = "command" /\ exitMsg # "") =>
              exitMsg = "SKICKA_PASSPHRASE environment variable not set"

\* An upload with a right [encryption] section and no passphrase has ended in
\* decryptEncryptionKey, with both workers at the call.
C16_Witness ==
    /\ passphrase = <<>>
    /\ cmd = "upload"
    /\ config = ValidConfig
    /\ mainPc = "command"
    /\ exitMsg = "SKICKA_PASSPHRASE environment variable not set"
    /\ \A w \in Workers : wPc[w] = "enter"

(***************************************************************************)
(* Properties of the diagnostics                                           *)
(***************************************************************************)

\* The secrets of the process: the configured client id, client secret and
\* API key, and the bearer token.
Secrets == ({gClientId, gClientSecret, gApiKey} \ {<<>>}) \cup {BearerToken}

\* The text p occurs in the text s.
Contains(s, p) ==
    \E i \in 1..(Len(s) - Len(p) + 1) : SubSeq(s, i, i + Len(p) - 1) = p

\* C18: no text written to the log or to stderr, on any channel (message,
\* debug, fatal error, counted error, handler log, token cache warning), holds
\* a configured client id, client secret or API key, or a bearer token.
C18_NoSecretEmitted ==
    \A e \in emitted : \A x \in Secrets : ~ Contains(e.text, x)

\* The result of sanitize holds none of the configured values.
C27_NoConfiguredValueLeft ==
    sPc = "returned" =>
        \A v \in {gClientId, gClientSecret, gApiKey} \ {<<>>} : ~ Contains(sOut, v)

\* In the result of sanitize, "Authorization: Bearer " is followed by the
\* replacement text and by nothing of a token.
C27_NoBearerTokenLeft ==
    sPc = "returned" =>
        \A i \in 1..(Len(sOut) - Len(AuthPrefix) + 1) :
            SubSeq(sOut, i, i + Len(AuthPrefix) - 1) = AuthPrefix =>
                LET rest  == Drop(sOut, i + Len(AuthPrefix) - 1)
                    after == Drop(rest, Len(AuthTokenMarker))
                IN  /\ Take(rest, Len(AuthTokenMarker)) = AuthTokenMarker
                    /\ after = <<>> \/ Head(after) \in Whitespace

\* C27: for every text and every configured client id, client secret and API
\* key, the result of sanitize holds no occurrence of a configured value and
\* no bearer token after "Authorization: Bearer ".
C27_SanitizedHoldsNoSecret == C27_NoConfiguredValueLeft /\ C27_NoBearerTokenLeft

(***************************************************************************)
(* Properties of getFileContentsReaderForUpload                            *)
(***************************************************************************)

\* C20: when getFileContentsReaderForUpload has returned a reader for a file
\* F: with encrypt, the bytes read are the 16 bytes of the iv followed by
\* encryptBytes(key, iv, F) under the global key, which is the content key of
\* the config, the size returned is len(F) + 16, and decrypting what follows
\* the first 16 bytes, with them as iv, gives F; without encrypt, the bytes
\* read are F and the size is len(F).  A call without encrypt leaves the
\* global key as it was and runs no derivation.
C20_UploadStream ==
    /\ [](uPc = "returned" =>
            IF uEncrypt
            THEN /\ Len(uIv) = 16
                 /\ key = Pattern(ContentKeyLen, 3)
                 /\ uOut = uIv \o encryptBytes(key, uIv, uFile).bytes
                 /\ uSize = Len(uFile) + 16
                 /\ Len(uOut) = uSize
                 /\ decryptBytes(key, Take(uOut, 16), Drop(uOut, 16)).bytes = uFile
            ELSE /\ uOut = uFile
                 /\ uSize = Len(uFile))
    /\ [][(uPc = "called" /\ ~ uEncrypt) =>
             (key' = key /\ derivations' = derivations /\ exitMsg' = exitMsg)]_vars

\* The second call of a process, with encrypt, has returned a file of more
\* than one block, one derivation having run in the process.
C20_Witness ==
    /\ uPc = "returned"
    /\ uCalls = 2
    /\ uEncrypt
    /\ derivations = 1
    /\ Len(uFile) > BlockSize
    /\ Len(uOut) = Len(uFile) + 16

=============================================================================
